---- MODULE Spec2Model ----
(***************************************************************************)
(* YuCart content script (src/content/content.js, first IIFE, lines 7-695):*)
(* the price extractor, the page-shape detectors, the scan scheduler, the  *)
(* overlay synchronizer and the engine lifecycle.                          *)
(*                                                                         *)
(* Text is a sequence of characters; a character is a one-element atom     *)
(* (a string).  Non-ASCII characters are named: "yen" is U+00A5, "fwyen"   *)
(* is U+FFE5, "cjk" is U+5143 (the yuan ideograph), "lb" is U+3010.        *)
(***************************************************************************)
EXTENDS Integers, Sequences, FiniteSets, TLC

VARIABLES
    input,      \* PriceSpec: the text handed to extractPrice, with how it was built
    price,      \* PriceSpec: Unset before the call, then extractPrice's result
    title,      \* PriceSpec: the descriptor's title once the candidate was processed
    imgEl,      \* ThumbSpec: the element handed to getImageUrl
    thumb       \* ThumbSpec: Unresolved before the call, then getImageUrl's result

VARIABLES
    \* RateSpec: the currency of the converted prices
    storedCurrency,     \* settings.targetCurrency in chrome.storage.sync
    targetCurrency,     \* the script's targetCurrency
    exchangeRate,       \* the script's exchangeRate: NoRate (null) or the rate data of a currency
    loads,              \* the loadRate() calls in flight: [phase, currency]
    rendered            \* what formatConverted last gave: NotRendered, '' or [symbol, rate]

VARIABLES
    \* CartSpec: the service worker's cart operations
    cart,               \* the cart in chrome.storage.local: a sequence of entries
    units,              \* history: the operations started so far, in the order they started
    ops                 \* the operations in flight: [unit, pc, local], local the cart they read

rvars == <<storedCurrency, targetCurrency, exchangeRate, loads, rendered>>
cvars == <<cart, units, ops>>
pvars == <<input, price, title, imgEl, thumb, rvars, cvars>>

VARIABLES
    \* the page the script runs in
    pageKind,               \* "listing" (album grid / index) or "detail" (one album)
    barInBody,              \* the header area is a child of <body>
    attached,               \* the cards that are in the document
    ctrls,                  \* per card: the descriptors of the .yucart-add-btn inside it
    header,                 \* 0: no header title element, else the index of its text
    bars,                   \* the .yucart-detail-bar elements: [desc, hidden]
    viewer,                 \* .viewer__main: "absent", "none" (display:none) or "shown"
    viewerBars,             \* the .yucart-viewer-bar elements inside the viewer
    htmlLocked,             \* <html> style is overflow:hidden and position:fixed
    href,                   \* .showalbumheader__gallerysubtitle: absent, a link, or text
    classed,                \* the cards whose element carries the class its selector names
    viewerImg,              \* the <img> inside the panel's .viewer__img, or NoImg
    \* the module-level state of the script
    pc,                     \* where init() stands
    pendingLoads,           \* loadRate() calls started by handleSettingsChange, in flight
    observer,               \* the body observer is connected
    htmlObserver,           \* the <html> attribute observer is connected
    viewerObserver,         \* "null", "idle" (created), "observing", "stale" (panel gone)
    viewerCheckInterval,    \* the polling interval is live
    scanDebounceTimer,      \* the scan timer handle is not null
    lightboxDebounceTimer,  \* "null", "pending", or "fired" (handle kept after firing)
    scanTimers,             \* the 250 ms timers armed and neither fired nor cleared
    lightboxTimers,         \* the 50 ms timers armed and neither fired nor cleared
    pollIntervals,          \* the number of live 1000 ms intervals
    pendingScanRoots,
    pendingFullRescan,
    settingsListenerAttached,
    detailPageItemData,
    \* history
    cleaned,                \* cleanup() has run
    selfInduced,            \* a scan timer is pending and every notification since the last
                            \* flush carried only records of the script's own injections
    rootTouched,            \* a notification since the last flush touched document/html/body
    lastFlush,              \* the branch the last flush took: "none", "full" or "targeted"
    flushedRoots,           \* the roots the last targeted flush took from the set (line 601),
                            \* kept when they are at most MaxFlushedKept
    quietScans,             \* full scans since the host last changed a candidate element
    raised                  \* an exception has left a scan uncaught

VARIABLES
    \* the controls' click handlers
    clicks,                 \* activations so far
    handlers,               \* the handlers suspended in addToCart's await imageToBase64
    requests,               \* addToCart messages sent to the service worker
    calls,                  \* calls of chrome.runtime.sendMessage made by addToCart
    inflight,               \* the messages whose response callback has not run: [ctl, thumbnail]
    overlapRequests,        \* those sent by an activation made while its control was busy
    busy,                   \* the controls carrying yucart-add-btn--added
    stuck,                  \* the controls whose handler was ended by an exception
    reverts                 \* the pending 1500 ms timers, each with its control

domvars == <<pageKind, barInBody, attached, ctrls, header, bars, viewer, viewerBars, htmlLocked,
             href, classed, viewerImg>>
engvars == <<pc, pendingLoads, observer, htmlObserver, viewerObserver, viewerCheckInterval,
             scanDebounceTimer, lightboxDebounceTimer, scanTimers, lightboxTimers,
             pollIntervals, pendingScanRoots, pendingFullRescan,
             settingsListenerAttached, detailPageItemData>>
histvars == <<cleaned, rootTouched, selfInduced, lastFlush, flushedRoots, quietScans, raised>>
evars == <<domvars, engvars, histvars>>
avars == <<clicks, handlers, requests, calls, inflight, overlapRequests, busy, stuck, reverts>>
vars == <<pvars, evars, avars>>

\* extractPrice's null, and the value of a result not yet computed: records, as
\* numbers are, with an integer part no number has
None == [int |-> -1, frac |-> <<>>]
Unset == [int |-> -2, frac |-> <<>>]

\* ------------------------------------------------------------------------
\* Characters and character classes of the regular expressions
\* ------------------------------------------------------------------------
Digits == {"0", "1", "2", "3", "4", "5", "6", "7", "8", "9"}

DigitVal(c) ==
    CASE c = "0" -> 0 [] c = "1" -> 1 [] c = "2" -> 2 [] c = "3" -> 3
      [] c = "4" -> 4 [] c = "5" -> 5 [] c = "6" -> 6 [] c = "7" -> 7
      [] c = "8" -> 8 [] c = "9" -> 9

Letters == {"Y", "y", "u", "a", "n", "P", "p", "i", "h", "o", "e", "c", "s", "x", "_"}

\* \w : ASCII letters, digits and underscore
IsWord(c) == c \in Digits \cup Letters

\* \s
IsSpace(c) == c = " "

\* [\d,.]
IsNumChar(c) == c \in Digits \cup {",", "."}

\* [¥￥]
IsYen(c) == c \in {"yen", "fwyen"}

\* [¥￥元]
IsYenOrIdeograph(c) == c \in {"yen", "fwyen", "cjk"}

At(t, i) == IF i >= 1 /\ i <= Len(t) THEN t[i] ELSE "eos"

\* the last index of the maximal run of [\d,.] that starts at i
RECURSIVE RunEnd(_, _)
RunEnd(t, i) == IF IsNumChar(At(t, i + 1)) THEN RunEnd(t, i + 1) ELSE i

\* \s* is greedy: the first index at or after k holding no whitespace
RECURSIVE SkipSpaces(_, _)
SkipSpaces(t, k) == IF IsSpace(At(t, k)) THEN SkipSpaces(t, k + 1) ELSE k

\* (?:\s|$|[【\[\(]|[^\w]) at index q: end of input, or any non-word character
Boundary(t, q) == q > Len(t) \/ ~IsWord(At(t, q))

\* [Yy](?:uan)?(?:\s|$|[【\[\(]|[^\w]) at index k; "uan" is tried first, then skipped
UnitAndBoundary(t, k) ==
    /\ At(t, k) \in {"Y", "y"}
    /\ \/ /\ At(t, k + 1) = "u" /\ At(t, k + 2) = "a" /\ At(t, k + 3) = "n"
          /\ Boundary(t, k + 4)
       \/ Boundary(t, k + 1)

Max(S) == CHOOSE x \in S : \A y \in S : y <= x
Min(S) == CHOOSE x \in S : \A y \in S : x <= y

\* A match is <<i, j>>: the capture group is t[i..j].  The match returned is the
\* one String.prototype.match returns: leftmost start, and for that start the
\* longest capture for which the rest of the pattern matches (the group is greedy
\* and gives characters back one at a time).
NoMatch == <<0, 0>>

\* PRICE_REGEX[0]  /(\d[\d,.]*)\s*[Yy](?:uan)?(?:\s|$|[【\[\(]|[^\w])/
CapEnds0(t, i) == {j \in i..RunEnd(t, i) : UnitAndBoundary(t, SkipSpaces(t, j + 1))}
Match0(t) ==
    LET starts == {i \in 1..Len(t) : At(t, i) \in Digits /\ CapEnds0(t, i) # {}}
    IN  IF starts = {} THEN NoMatch ELSE <<Min(starts), Max(CapEnds0(t, Min(starts)))>>

\* PRICE_REGEX[1]  /[¥￥]\s*(\d[\d,.]*)/
Match1(t) ==
    LET syms == {s \in 1..Len(t) : IsYen(At(t, s)) /\ At(t, SkipSpaces(t, s + 1)) \in Digits}
    IN  IF syms = {} THEN NoMatch
        ELSE LET i == SkipSpaces(t, Min(syms) + 1) IN <<i, RunEnd(t, i)>>

\* PRICE_REGEX[2]  /(\d[\d,.]*)\s*[¥￥元]/
CapEnds2(t, i) == {j \in i..RunEnd(t, i) : IsYenOrIdeograph(At(t, SkipSpaces(t, j + 1)))}
Match2(t) ==
    LET starts == {i \in 1..Len(t) : At(t, i) \in Digits /\ CapEnds2(t, i) # {}}
    IN  IF starts = {} THEN NoMatch ELSE <<Min(starts), Max(CapEnds2(t, Min(starts)))>>

\* PRICE_REGEX[3]  /[Pp](\d[\d,.]*)(?:\s|$|[【\[\(]|[^\w])/
CapEnds3(t, i) == {j \in i..RunEnd(t, i) : Boundary(t, j + 1)}
Match3(t) ==
    LET starts == {i \in 2..Len(t) :
                      At(t, i - 1) \in {"P", "p"} /\ At(t, i) \in Digits /\ CapEnds3(t, i) # {}}
    IN  IF starts = {} THEN NoMatch ELSE <<Min(starts), Max(CapEnds3(t, Min(starts)))>>

NumPatterns == 4

PRICE_REGEX(k, t) ==
    CASE k = 1 -> Match0(t) [] k = 2 -> Match1(t) [] k = 3 -> Match2(t) [] k = 4 -> Match3(t)

\* ------------------------------------------------------------------------
\* parseFloat(m[1].replace(/,/g, ''))
\* ------------------------------------------------------------------------
PriceLimit == 999999

\* A number is [int |-> n, frac |-> fraction digits without trailing zeros].
\* The integer part saturates at 10 * PriceLimit: every number at or above it
\* compares alike with 0 and with PriceLimit.
RECURSIVE StripZeros(_)
StripZeros(ds) ==
    IF ds # <<>> /\ ds[Len(ds)] = 0 THEN StripZeros(SubSeq(ds, 1, Len(ds) - 1)) ELSE ds

RemoveCommas(s) == SelectSeq(s, LAMBDA c : c # ",")

RECURSIVE IntPart(_, _, _)
IntPart(s, k, acc) ==
    IF At(s, k) \in Digits
    THEN IntPart(s, k + 1,
                 IF acc * 10 + DigitVal(s[k]) > 10 * PriceLimit THEN 10 * PriceLimit
                 ELSE acc * 10 + DigitVal(s[k]))
    ELSE <<acc, k>>

RECURSIVE FracDigits(_, _)
FracDigits(s, k) ==
    IF At(s, k) \in Digits THEN <<DigitVal(s[k])>> \o FracDigits(s, k + 1) ELSE <<>>

\* s starts with a digit and holds digits and dots: the longest prefix that is a
\* decimal literal is parsed, the rest is ignored ("1.2.3" is 1.2, "1." is 1)
ParseFloat(s) ==
    LET ip == IntPart(s, 1, 0)
    IN  [int  |-> ip[1],
         frac |-> IF At(s, ip[2]) = "." THEN StripZeros(FracDigits(s, ip[2] + 1)) ELSE <<>>]

\* p > 0 && p < 999999
InRange(p) == (p.int > 0 \/ p.frac # <<>>) /\ p.int < PriceLimit

\* the capture parsed with its commas left in: parseFloat stops at the first one
CapturedKeepCommas(t, m) == ParseFloat(SubSeq(t, m[1], m[2]))

Captured(t, m) == ParseFloat(RemoveCommas(SubSeq(t, m[1], m[2])))

\* extractPrice with the range test dropped: the first match is returned
RECURSIVE ExtractFromNoRange(_, _)
ExtractFromNoRange(t, k) ==
    IF k > NumPatterns THEN None
    ELSE LET m == PRICE_REGEX(k, t)
         IN  IF m # NoMatch THEN Captured(t, m) ELSE ExtractFromNoRange(t, k + 1)

\* extractPrice giving up at the first pattern that matches out of range
RECURSIVE ExtractFromStopAtMatch(_, _)
ExtractFromStopAtMatch(t, k) ==
    IF k > NumPatterns THEN None
    ELSE LET m == PRICE_REGEX(k, t)
         IN  IF m # NoMatch
             THEN (IF InRange(Captured(t, m)) THEN Captured(t, m) ELSE None)
             ELSE ExtractFromStopAtMatch(t, k + 1)

\* the loop of extractPrice from pattern k on
RECURSIVE ExtractFrom(_, _)
ExtractFrom(t, k) ==
    IF k > NumPatterns THEN None
    ELSE LET m == PRICE_REGEX(k, t)
         IN  IF m # NoMatch /\ InRange(Captured(t, m)) THEN Captured(t, m)
             ELSE ExtractFrom(t, k + 1)

extractPrice(t) == ExtractFrom(t, 1)

\* ------------------------------------------------------------------------
\* Inputs of the price extractor
\* ------------------------------------------------------------------------
MaxPieces == 3

RECURSIVE Flatten(_)
Flatten(ps) == IF ps = <<>> THEN <<>> ELSE Head(ps) \o Flatten(Tail(ps))

SeqsUpTo(S, n) == UNION {[1..k -> S] : k \in 0..n}

Num(i, f) == [int |-> i, frac |-> f]

\* numerals and the numbers they denote (',' separates thousands, '.' is the point)
Numerals ==
    { [chars |-> <<"1", "6", "0">>,                     val |-> Num(160, <<>>)],
      [chars |-> <<"9", "9", ".", "5", "0">>,           val |-> Num(99, <<5>>)],
      [chars |-> <<"2", "5", "0">>,                     val |-> Num(250, <<>>)],
      [chars |-> <<"1", ",", "0", "0", "0">>,           val |-> Num(1000, <<>>)],
      [chars |-> <<"0", ".", "5">>,                     val |-> Num(0, <<5>>)],
      [chars |-> <<"9", "9", "9", "9", "9", "8">>,      val |-> Num(999998, <<>>)],
      [chars |-> <<"0">>,                               val |-> Num(0, <<>>)],
      [chars |-> <<"9", "9", "9", "9", "9", "9">>,      val |-> Num(999999, <<>>)],
      [chars |-> <<"1", "9", "9", "9", "9", "9", "9">>, val |-> Num(1999999, <<>>)] }

\* the four token shapes around a numeral n
TokenForms(n) ==
    { [shape |-> 1, chars |-> n \o u] : u \in {<<"Y">>, <<"y">>, <<"Y", "u", "a", "n">>} }
    \cup { [shape |-> 2, chars |-> <<y>> \o n] : y \in {"yen", "fwyen"} }
    \cup { [shape |-> 3, chars |-> n \o <<y>>] : y \in {"yen", "fwyen", "cjk"} }
    \cup { [shape |-> 4, chars |-> <<p>> \o n] : p \in {"P", "p"} }

\* text before a token: it ends with no digit, no 'P' and no currency symbol
TokenPre ==
    { <<>>, <<"i", "P", "h", "o", "n", "e", " ">>, <<"c", "a", "s", "e", "lb">>, <<"x">> }

\* text after a token: it starts with a boundary, and holds no token shape
TokenPost == { <<>>, <<" ", "c", "a", "s", "e">>, <<"lb", "x">>, <<".">> }

TokenInputs ==
    UNION { { [kind |-> "token", shape |-> f.shape, expect |-> n.val,
               text |-> pre \o f.chars \o post, pre |-> pre, post |-> post] :
                 f \in TokenForms(n.chars), pre \in TokenPre, post \in TokenPost } :
            n \in Numerals }

\* pieces whose concatenations hold no token shape: every digit run is followed
\* by " pcs" and preceded by none of P, p or a currency symbol
NoPricePieces ==
    { <<"i", "P", "h", "o", "n", "e">>, <<" ">>, <<"c", "a", "s", "e">>, <<"lb">>,
      <<"1", "2", " ", "p", "c", "s">>, <<"Y">>, <<"Y", "u", "a", "n">> }

NoPriceInputs ==
    { [kind |-> "noprice", shape |-> 0, expect |-> None, text |-> Flatten(ps),
        pre |-> <<>>, post |-> <<>>] :
         ps \in SeqsUpTo(NoPricePieces, MaxPieces) }

\* arbitrary texts: concatenations of numerals, units, symbols and separators
FreePieces ==
    { <<"1", "6", "0">>, <<"0">>, <<"1", "9", "9", "9", "9", "9", "9">>, <<"9", ".", "5">>,
      <<"0", "Y">>, <<"Y">>, <<"u", "a", "n">>, <<"yen">>, <<"cjk">>, <<"P">>, <<" ">>, <<"x">>, <<",">> }

FreeInputs ==
    { [kind |-> "free", shape |-> 0, expect |-> None, text |-> Flatten(ps),
        pre |-> <<>>, post |-> <<>>] :
         ps \in SeqsUpTo(FreePieces, MaxPieces) }

Inputs == TokenInputs \cup NoPriceInputs \cup FreeInputs

\* ------------------------------------------------------------------------
\* The page: elements, titles, and what the selectors find
\* ------------------------------------------------------------------------
NumCards == 2
Cards == 1..NumCards

Txt160YCase == <<"1", "6", "0", "Y", " ", "c", "a", "s", "e">>
TxtBigYCase == <<"1", "9", "9", "9", "9", "9", "9", "Y", " ", "c", "a", "s", "e">>
TxtYen9950X == <<"yen", "9", "9", ".", "5", "0", " ", "x">>
TxtCase     == <<"c", "a", "s", "e">>
TxtP250X    == <<"P", "2", "5", "0", " ", "x">>
Txt0YCase   == <<"0", "Y", " ", "c", "a", "s", "e">>

\* the title text of each card and the price a reader finds in it (None: no
\* price between 0 and 999999); the selectors each card matches
TitleTable ==
    << [text |-> Txt160YCase, expect |-> Num(160, <<>>)],
       [text |-> TxtBigYCase, expect |-> None],
       [text |-> TxtYen9950X, expect |-> Num(99, <<5>>)],
       [text |-> TxtCase,     expect |-> None] >>
KindTable == <<"both", "index", "album", "index">>

CardTitle(c) == TitleTable[((c - 1) % Len(TitleTable)) + 1]
CardKind(c) == KindTable[((c - 1) % Len(KindTable)) + 1]

\* the texts the detail header can show
HeaderTitles ==
    << [text |-> Txt160YCase, expect |-> Num(160, <<>>)],
       [text |-> TxtP250X,    expect |-> Num(250, <<>>)],
       [text |-> Txt0YCase,   expect |-> None] >>
Headers == 1..Len(HeaderTitles)

\* element identities
Document == <<"document", 0>>
Html == <<"html", 0>>
Body == <<"body", 0>>
Container == <<"container", 0>>
HeaderEl == <<"header", 0>>
HeaderParent == <<"headerparent", 0>>
Bar == <<"bar", 0>>
Viewer == <<"viewer", 0>>
ViewerBar == <<"viewerbar", 0>>
Plain == <<"plain", 0>>
NoRoot == <<"none", 0>>
Card(c) == <<"card", c>>
Overlay(c) == <<"overlay", c>>
Filler(i) == <<"filler", i>>

\* nodes of a mutation record: an element, or a text node with its parentElement
ElemNode(e) == [t |-> "elem", el |-> e]
TextNode(parent) == [t |-> "text", el |-> parent]
Rec(target, added) == [target |-> ElemNode(target), added |-> added]

\* String.prototype.trim
RECURSIVE TrimEnd(_)
TrimEnd(t) == IF t # <<>> /\ IsSpace(t[Len(t)]) THEN TrimEnd(SubSeq(t, 1, Len(t) - 1)) ELSE t
Trim(t) == TrimEnd(SubSeq(t, SkipSpaces(t, 1), Len(t)))

\* titleText.replace(/^\d[\d,.]*\s*[Yy](?:uan)?\s*/, ''): the index after the
\* match, or 1 when the pattern does not match at the start.  The run of [\d,.]
\* cannot give characters back to [Yy], so only its full length can match.
StripEnd(t) ==
    LET k == SkipSpaces(t, RunEnd(t, 1) + 1)
    IN  IF At(t, 1) \in Digits /\ At(t, k) \in {"Y", "y"}
        THEN (IF At(t, k + 1) = "u" /\ At(t, k + 2) = "a" /\ At(t, k + 3) = "n"
              THEN SkipSpaces(t, k + 4) ELSE SkipSpaces(t, k + 1))
        ELSE 1

\* cleanTitle = titleText.replace(...).trim() || titleText
cleanTitle(t) ==
    LET stripped == Trim(SubSeq(t, StripEnd(t), Len(t)))
    IN  IF stripped = <<>> THEN t ELSE stripped

\* no descriptor was built
NoTitle == [built |-> FALSE, text |-> <<>>]

\* decodeURIComponent on the characters a link parameter is made of here: '%',
\* the hex digits '2' and '5', and 'x', 'R', 'U', "dq" (the double quote), which
\* are no hex digits.  %22 is '"', %25 is '%', %52 is 'R', %55 is 'U'; a '%' not
\* followed by two hex digits raises URIError.
PctChar(a, b) ==
    CASE a = "2" /\ b = "2" -> "dq" [] a = "2" /\ b = "5" -> "%"
      [] a = "5" /\ b = "2" -> "R"  [] a = "5" /\ b = "5" -> "U"

URIError == [ok |-> FALSE, text |-> <<>>]

\* the characters from index k on are decoded and appended to acc
RECURSIVE DecodeFrom(_, _, _)
DecodeFrom(u, k, acc) ==
    IF k > Len(u) THEN [ok |-> TRUE, text |-> acc]
    ELSE IF u[k] # "%" THEN DecodeFrom(u, k + 1, Append(acc, u[k]))
    ELSE IF At(u, k + 1) \in {"2", "5"} /\ At(u, k + 2) \in {"2", "5"}
         THEN DecodeFrom(u, k + 3, Append(acc, PctChar(u[k + 1], u[k + 2])))
    ELSE URIError

decodeURIComponent(u) == DecodeFrom(u, 1, <<>>)

\* href.match(/[?&]url=([^&]+)/): the capture of the leftmost match, <<>> if none
RECURSIVE ParamEnd(_, _)
ParamEnd(h, j) == IF j < Len(h) /\ h[j + 1] # "&" THEN ParamEnd(h, j + 1) ELSE j

UrlMatch(h) ==
    LET starts == {i \in 1..Len(h) :
                      /\ h[i] \in {"?", "&"}
                      /\ At(h, i + 1) = "u" /\ At(h, i + 2) = "r" /\ At(h, i + 3) = "l"
                      /\ At(h, i + 4) = "="
                      /\ i + 5 <= Len(h) /\ h[i + 5] # "&"}
    IN  IF starts = {} THEN <<>>
        ELSE SubSeq(h, Min(starts) + 5, ParamEnd(h, Min(starts) + 5))

\* the subtitle element of the page: none, an <a> with an href, or plain text
NoSubtitle == [kind |-> "absent", chars |-> <<>>]
Anchor(h) == [kind |-> "anchor", chars |-> h]
PlainSubtitle(t) == [kind |-> "text", chars |-> t]

Returned(v) == [raised |-> FALSE, value |-> v]
Thrown == [raised |-> TRUE, value |-> <<>>]

\* getGallerySubtitle: the try block decodes twice; the catch block decodes once,
\* outside any try
getGallerySubtitle(sub) ==
    IF sub.kind = "absent" THEN Returned(<<>>)
    ELSE IF sub.kind = "text" THEN Returned(Trim(sub.chars))
    ELSE LET m == UrlMatch(sub.chars)
             once == decodeURIComponent(m)
             twice == IF once.ok THEN decodeURIComponent(once.text) ELSE URIError
         IN  IF m = <<>> THEN Returned(sub.chars)
             ELSE IF twice.ok THEN Returned(twice.text)
             ELSE IF once.ok THEN Returned(once.text)
             ELSE Thrown

\* the subtitles a page can carry: links with and without a url= parameter, the
\* parameter first or second in the query, alone or followed by another
MaxParam == 3

Params == SeqsUpTo({"%", "2", "5", "x"}, MaxParam)

Links ==
    {<<"h">>}
    \cup {<<"h", "?", "u", "r", "l", "=">> \o q \o rest : q \in Params, rest \in {<<>>, <<"&", "k">>}}
    \cup {<<"h", "?", "k", "&", "u", "r", "l", "=">> \o q : q \in Params}

Subtitles ==
    {NoSubtitle, PlainSubtitle(<<" ", "x", " ">>)} \cup {Anchor(h) : h \in Links}

\* getGallerySubtitle on each of them
SubtitleOf == [sb \in Subtitles |-> getGallerySubtitle(sb)]

\* ------------------------------------------------------------------------
\* Image references: getImageUrl
\* ------------------------------------------------------------------------
\* A reference is known by how it begins and by its length: "http" begins
\* with 'http', "data" begins with 'data:', "other" begins with neither.
\* NullUrl is getAttribute's null, EmptyStr the string ''.
SmallDataLimit == 200
UrlLengths == {SmallDataLimit - 1, SmallDataLimit, SmallDataLimit + 1}
NullUrl == [scheme |-> "null", len |-> 0]
EmptyStr == [scheme |-> "", len |-> 0]
Unresolved == [scheme |-> "unset", len |-> 0]
Urls == [scheme : {"http", "data", "other"}, len : UrlLengths]
AttrValues == Urls \cup {NullUrl, EmptyStr}

\* an <img>: its data-origin-src and data-src attributes and its src property;
\* NoImg is the null a failed querySelector gives
NoImg == [origin |-> Unresolved, lazy |-> Unresolved, src |-> Unresolved]
ImgElements == [origin : AttrValues, lazy : AttrValues, src : AttrValues]

\* a string that is neither null nor ''
Truthy(url) == url # NullUrl /\ url # EmptyStr

\* the for loop of getImageUrl from candidate k on
RECURSIVE Probe(_, _)
Probe(candidates, k) ==
    IF k > Len(candidates) THEN EmptyStr
    ELSE IF ~Truthy(candidates[k]) THEN Probe(candidates, k + 1)
    ELSE IF candidates[k].scheme = "data" /\ candidates[k].len < SmallDataLimit
         THEN Probe(candidates, k + 1)
    ELSE IF \/ candidates[k].scheme = "http"
            \/ candidates[k].scheme = "data" /\ candidates[k].len > SmallDataLimit
         THEN candidates[k]
    ELSE Probe(candidates, k + 1)

\* the loop ending at the first small inline placeholder instead of skipping it
RECURSIVE ProbeUntilPlaceholder(_, _)
ProbeUntilPlaceholder(candidates, k) ==
    IF k > Len(candidates) THEN EmptyStr
    ELSE IF ~Truthy(candidates[k]) THEN ProbeUntilPlaceholder(candidates, k + 1)
    ELSE IF candidates[k].scheme = "data" /\ candidates[k].len < SmallDataLimit
         THEN EmptyStr
    ELSE IF \/ candidates[k].scheme = "http"
            \/ candidates[k].scheme = "data" /\ candidates[k].len > SmallDataLimit
         THEN candidates[k]
    ELSE ProbeUntilPlaceholder(candidates, k + 1)

getImageUrlUntilPlaceholder(el) ==
    IF el = NoImg THEN EmptyStr ELSE ProbeUntilPlaceholder(<<el.origin, el.lazy, el.src>>, 1)

getImageUrl(el) ==
    IF el = NoImg THEN EmptyStr ELSE Probe(<<el.origin, el.lazy, el.src>>, 1)

\* the detail page's cover image and first gallery image, and the thumbnail
\* processDetailPage takes from them
HeaderImg == [origin |-> NullUrl, lazy |-> NullUrl,
              src |-> [scheme |-> "data", len |-> SmallDataLimit - 1]]
GalleryImg == [origin |-> NullUrl, lazy |-> [scheme |-> "http", len |-> SmallDataLimit - 1],
               src |-> [scheme |-> "data", len |-> SmallDataLimit - 1]]
\* the image the overlay panel shows: lazily loaded, its src still the placeholder
PanelImg == [origin |-> [scheme |-> "http", len |-> SmallDataLimit + 1], lazy |-> NullUrl,
             src |-> [scheme |-> "data", len |-> SmallDataLimit - 1]]
PageThumb ==
    IF Truthy(getImageUrl(HeaderImg)) THEN getImageUrl(HeaderImg) ELSE getImageUrl(GalleryImg)

\* itemData: what a control carries
Desc(p, ttl) == [price |-> p, title |-> ttl]
DetailDesc(p, ttl, sub) ==
    [price |-> p, title |-> ttl, subtitle |-> sub, thumbnail |-> PageThumb]
NoData == DetailDesc(None, <<>>, <<>>)

\* !price
Falsy(p) == p = None \/ (p.int = 0 /\ p.frac = <<>>)

CardPrice == [c \in Cards |-> extractPrice(CardTitle(c).text)]
HeaderPrice == [h \in Headers |-> extractPrice(HeaderTitles[h].text)]

\* a query that searches below the root only
queryBelowRoot(root, c) == root \in {Document, Html, Body, Container} /\ c \in attached

\* queryIncludingRoot: the element of card c is the root itself (root.matches)
\* or lies below it (querySelectorAll)
queryIncludingRoot(root, c) ==
    \/ root = Card(c)
    \/ root \in {Document, Html, Body, Container} /\ c \in attached

\* queryIncludingRoot(root, '.album__main, .album3__main'): the class is on the card
QueryAlbums(root) ==
    {c \in Cards : /\ CardKind(c) \in {"album", "both"}
                   /\ c \in classed
                   /\ queryIncludingRoot(root, c)}

\* queryIncludingRoot(root, '.showindex__children a'): the anchor matches only
\* below its .showindex__children ancestor, that is while it is attached
QueryIndexItems(root) ==
    {c \in Cards : /\ CardKind(c) \in {"index", "both"}
                   /\ c \in classed
                   /\ c \in attached
                   /\ queryIncludingRoot(root, c)}

\* root.isConnected
IsConnected(root, cs) ==
    CASE root[1] = "card" -> root[2] \in attached
      [] root[1] = "overlay" -> root[2] \in attached /\ cs[root[2]] # <<>>
      [] root = HeaderEl -> header # 0
      [] root = Bar -> bars # <<>>
      [] root = Viewer -> viewer # "absent"
      [] root = ViewerBar -> viewer # "absent" /\ viewerBars # <<>>
      [] OTHER -> TRUE

\* ------------------------------------------------------------------------
\* The detectors
\* ------------------------------------------------------------------------
\* the forEach body after the price p was extracted: no control without a price
InjectPriced(btns, c, p) ==
    IF Falsy(p) THEN btns ELSE Append(btns, Desc(p, cleanTitle(CardTitle(c).text)))

\* the forEach body without its "already processed" test
InjectCardNoMarker(btns, c) == InjectPriced(btns, c, CardPrice[c])

\* the forEach body of processAlbumListings and of processIndexPage on card c,
\* whose .yucart-add-btn descendants carry btns
InjectCard(btns, c) ==
    IF btns # <<>> THEN btns ELSE InjectPriced(btns, c, CardPrice[c])

processAlbumListings(cs, root) ==
    [c \in Cards |-> IF c \in QueryAlbums(root) THEN InjectCard(cs[c], c) ELSE cs[c]]

processIndexPage(cs, root) ==
    [c \in Cards |-> IF c \in QueryIndexItems(root) THEN InjectCard(cs[c], c) ELSE cs[c]]

\* processDetailPage once the title was read: p is extractPrice's result, sub
\* what getGallerySubtitle does (it is called only when there is a price)
InjectDetail(d, p, sub) ==
    IF Falsy(p) THEN d
    ELSE IF sub.raised THEN [d EXCEPT !.threw = TRUE]
    ELSE [bars  |-> Append(d.bars,
                       [desc |-> DetailDesc(p, cleanTitle(HeaderTitles[header].text), sub.value),
                        hidden |-> FALSE]),
          data  |-> DetailDesc(p, cleanTitle(HeaderTitles[header].text), sub.value),
          threw |-> FALSE]

\* processDetailPage without the test for a bar that is already there
processDetailPageNoMarker(d) ==
    IF header = 0 THEN d ELSE InjectDetail(d, HeaderPrice[header], SubtitleOf[href])

\* d = [bars, data, threw]; threw: an exception left the function
processDetailPage(d) ==
    IF header = 0 THEN d
    ELSE IF d.bars # <<>> THEN d
    ELSE InjectDetail(d, HeaderPrice[header], SubtitleOf[href])

\* the descriptor built from the panel's image alone, whatever getImageUrl gives
ViewerItemDataAlways(data, img) == [data EXCEPT !.thumbnail = getImageUrl(img)]

\* the descriptor the overlay control gets: a copy of the cached context whose
\* thumbnail is the overlay image's reference when that is not ''
ViewerItemData(data, img) ==
    IF Truthy(getImageUrl(img)) THEN [data EXCEPT !.thumbnail = getImageUrl(img)] ELSE data

processImageViewer(vbars, data) ==
    IF viewer = "absent" THEN vbars
    ELSE IF vbars # <<>> THEN vbars
    ELSE IF data = NoData THEN vbars
    ELSE Append(vbars, ViewerItemData(data, viewerImg))

\* the page state the detectors write: P = [ctrls, bars, viewerBars, data]
CurrentPage ==
    [ctrls |-> ctrls, bars |-> bars, viewerBars |-> viewerBars, data |-> detailPageItemData]

\* what follows processDetailPage in a scan, unless it threw: cs are the cards'
\* controls so far, d is processDetailPage's result, root the scope of the index
\* detector (NoRoot: it is not run here)
AfterDetail(P, cs, d, root) ==
    [ctrls      |-> IF d.threw \/ root = NoRoot THEN cs ELSE processIndexPage(cs, root),
     bars       |-> d.bars,
     viewerBars |-> IF d.threw THEN P.viewerBars ELSE processImageViewer(P.viewerBars, d.data),
     data       |-> d.data,
     threw      |-> d.threw]

\* the calls after one that throws do not run
scanPage(P) ==
    AfterDetail(P, processAlbumListings(P.ctrls, Document),
                processDetailPage([bars |-> P.bars, data |-> P.data, threw |-> FALSE]),
                Document)

scanRoot(cs, root) == processIndexPage(processAlbumListings(cs, root), root)

\* the child-list records the injections of one callback produce
SetToSeq(S) ==
    LET RECURSIVE Build(_)
        Build(T) == IF T = {} THEN <<>>
                    ELSE LET x == CHOOSE y \in T : TRUE IN <<x>> \o Build(T \ {x})
    IN  Build(S)

InjectionRecords(P, Q) ==
    SetToSeq({Rec(Card(c), <<ElemNode(Overlay(c))>>) :
                 c \in {k \in Cards : Len(Q.ctrls[k]) > Len(P.ctrls[k])}})
    \o (IF Len(Q.bars) > Len(P.bars)
        THEN <<Rec(IF barInBody THEN Body ELSE HeaderParent, <<ElemNode(Bar)>>)>> ELSE <<>>)
    \o (IF Len(Q.viewerBars) > Len(P.viewerBars)
        THEN <<Rec(Viewer, <<ElemNode(ViewerBar)>>)>> ELSE <<>>)

\* ------------------------------------------------------------------------
\* The scan scheduler
\* ------------------------------------------------------------------------
MaxPendingRoots == 80

\* the queue is q = [roots |-> pendingScanRoots, full |-> pendingFullRescan]
Queue == [roots |-> pendingScanRoots, full |-> pendingFullRescan]
EmptyQueue == [roots |-> {}, full |-> FALSE]
Collapsed == [roots |-> {}, full |-> TRUE]

\* queueRootForScan that drops the queued roots on a root-level node but does
\* not raise the flag
QueueRootForScanNoFlag(q, node) ==
    IF q.full \/ node.t = "null" THEN q
    ELSE IF node.t = "elem" /\ node.el \in {Document, Html, Body} THEN EmptyQueue
    ELSE IF Cardinality(q.roots \cup {node.el}) > MaxPendingRoots THEN Collapsed
    ELSE [roots |-> q.roots \cup {node.el}, full |-> FALSE]

\* queueRootForScan without the early return on a pending full rescan
QueueRootForScanNoGuard(q, node) ==
    IF node.t = "null" THEN q
    ELSE IF node.t = "elem" /\ node.el \in {Document, Html, Body} THEN Collapsed
    ELSE IF Cardinality(q.roots \cup {node.el}) > MaxPendingRoots THEN Collapsed
    ELSE [roots |-> q.roots \cup {node.el}, full |-> q.full]

\* queueRootForScan raising the flag without clearing the set
QueueRootForScanKeepRoots(q, node) ==
    IF q.full \/ node.t = "null" THEN q
    ELSE IF node.t = "elem" /\ node.el \in {Document, Html, Body}
         THEN [roots |-> q.roots, full |-> TRUE]
    ELSE IF Cardinality(q.roots \cup {node.el}) > MaxPendingRoots
         THEN [roots |-> q.roots \cup {node.el}, full |-> TRUE]
    ELSE [roots |-> q.roots \cup {node.el}, full |-> FALSE]

\* queueRootForScan collapsing at 80 entries instead of above 80
QueueRootForScanOffByOne(q, node) ==
    IF q.full \/ node.t = "null" THEN q
    ELSE IF node.t = "elem" /\ node.el \in {Document, Html, Body} THEN Collapsed
    ELSE IF Cardinality(q.roots \cup {node.el}) >= MaxPendingRoots THEN Collapsed
    ELSE [roots |-> q.roots \cup {node.el}, full |-> FALSE]

QueueRootForScan(q, node) ==
    IF q.full \/ node.t = "null" THEN q
    ELSE IF node.t = "elem" /\ node.el \in {Document, Html, Body} THEN Collapsed
    ELSE IF Cardinality(q.roots \cup {node.el}) > MaxPendingRoots THEN Collapsed
    ELSE [roots |-> q.roots \cup {node.el}, full |-> FALSE]

RECURSIVE QueueNodes(_, _)
QueueNodes(q, nodes) ==
    IF nodes = <<>> THEN q ELSE QueueNodes(QueueRootForScan(q, Head(nodes)), Tail(nodes))

RECURSIVE queueMutationTargets(_, _)
queueMutationTargets(q, mutations) ==
    IF mutations = <<>> THEN q
    ELSE queueMutationTargets(
             QueueNodes(q, <<Head(mutations).target>> \o Head(mutations).added),
             Tail(mutations))

\* a record names the document, <html> or <body> as target or as added node
TouchesRoot(mutations) ==
    \E k \in 1..Len(mutations) :
        \E n \in {mutations[k].target} \cup {mutations[k].added[j] : j \in 1..Len(mutations[k].added)} :
            n.t = "elem" /\ n.el \in {Document, Html, Body}

\* Timers are numbered as they are armed: a new timer gets a number above every
\* live one, so the timer a non-null handle holds is the highest live one.
NewTimer(live) == IF live = {} THEN 1 ELSE Max(live) + 1

\* clearTimeout(handle), for a handle that is set (held) or null
ClearTimeout(live, held) == IF held /\ live # {} THEN live \ {Max(live)} ELSE live

\* scheduleQueuedScan clearing the pending timer without arming a new one
scheduleQueuedScanNoArm(live, held) == ClearTimeout(live, held)

\* scheduleQueuedScan arming a timer without clearing the pending one
scheduleQueuedScanNoClear(live, held) == live \cup {NewTimer(live)}

\* scheduleQueuedScan on the live timers: the pending timer is cleared, a new one armed
scheduleQueuedScan(live, held) ==
    ClearTimeout(live, held) \cup {NewTimer(ClearTimeout(live, held))}

\* The body observer's callback (queueMutationTargets, then scheduleQueuedScan)
\* on the records of the step, starting from queue q, timer handle, live timers
\* and touched; without a connected observer, or without records, there is no
\* callback.
Notify(q, timer, live, touched, mutations) ==
    IF observer /\ mutations # <<>>
    THEN /\ pendingScanRoots' = queueMutationTargets(q, mutations).roots
         /\ pendingFullRescan' = queueMutationTargets(q, mutations).full
         /\ scanDebounceTimer' = TRUE
         /\ scanTimers' = scheduleQueuedScan(live, timer)
         /\ rootTouched' = (touched \/ TouchesRoot(mutations))
    ELSE /\ pendingScanRoots' = q.roots
         /\ pendingFullRescan' = q.full
         /\ scanDebounceTimer' = timer
         /\ scanTimers' = live
         /\ rootTouched' = touched

\* a host mutation: the records reach the callback before any timer fires
HostNotify(mutations) == Notify(Queue, scanDebounceTimer, scanTimers, rootTouched, mutations)

\* a loop body that scans the root whether or not it is connected
ScanAlways(cs, root) == scanRoot(cs, root)

\* the body of the for loop of flushQueuedScans
ScanIfConnected(cs, root) == IF IsConnected(root, cs) THEN scanRoot(cs, root) ELSE cs

\* the for loop of flushQueuedScans over the queued roots
RECURSIVE ScanRoots(_, _)
ScanRoots(cs, roots) ==
    IF roots = {} THEN cs
    ELSE LET r == CHOOSE x \in roots : TRUE
         IN  ScanRoots(ScanIfConnected(cs, r), roots \ {r})

\* the page after flushQueuedScans on page P with queue q
FlushedPage(P, q) ==
    IF q.full THEN scanPage(P)
    ELSE AfterDetail(P, ScanRoots(P.ctrls, q.roots),
                     processDetailPage([bars |-> P.bars, data |-> P.data, threw |-> FALSE]),
                     NoRoot)

QuietCap == 2

WritePage(Q) ==
    /\ ctrls' = Q.ctrls
    /\ bars' = Q.bars
    /\ viewerBars' = Q.viewerBars
    /\ detailPageItemData' = Q.data
    /\ raised' = (raised \/ Q.threw)

\* the largest set of flushed roots the history keeps
MaxFlushedKept == 2

\* the flush leaves page Q: the page is written, the observer's callback runs on
\* the records of the injections, and a completed full scan is counted
FlushTo(Q, t) ==
    /\ WritePage(Q)
    /\ Notify(EmptyQueue, FALSE, scanTimers \ {t}, FALSE, InjectionRecords(CurrentPage, Q))
    /\ selfInduced' = (observer /\ InjectionRecords(CurrentPage, Q) # <<>>)
    /\ quietScans' = IF pendingFullRescan /\ quietScans < QuietCap /\ ~Q.threw
                     THEN quietScans + 1 ELSE quietScans

\* the scan timer t fires: flushQueuedScans, then the callback for its injections
FlushBy(t) ==
    /\ t \in scanTimers
    /\ FlushTo(FlushedPage(CurrentPage, Queue), t)
    /\ lastFlush' = IF pendingFullRescan THEN "full" ELSE "targeted"
    /\ flushedRoots' = IF pendingFullRescan \/ Cardinality(pendingScanRoots) > MaxFlushedKept
                       THEN {} ELSE pendingScanRoots
    /\ UNCHANGED <<pageKind, viewerImg, barInBody, attached, header, viewer, htmlLocked>>
    /\ UNCHANGED <<pc, pendingLoads, observer, htmlObserver, viewerObserver,
                   viewerCheckInterval, pollIntervals, lightboxDebounceTimer, lightboxTimers, settingsListenerAttached>>
    /\ UNCHANGED <<cleaned, pvars, avars, href, classed, viewerImg>>

\* a live scan timer fires
flushQueuedScans == \E t \in scanTimers : FlushBy(t)

\* ------------------------------------------------------------------------
\* The overlay synchronizer
\* ------------------------------------------------------------------------
\* the visibility test with "and" in place of "or"
OverlayVisibleBoth(isHtmlLocked, isViewerVisible) == isHtmlLocked /\ isViewerVisible

\* isHtmlLocked || isViewerVisible
OverlayVisible(isHtmlLocked, isViewerVisible) == isHtmlLocked \/ isViewerVisible

\* handleLightboxChange arming a timer without clearing the pending one
handleLightboxChangeNoClear ==
    /\ lightboxDebounceTimer' = "pending"
    /\ lightboxTimers' = lightboxTimers \cup {NewTimer(lightboxTimers)}

\* handleLightboxChange: the debounce timer is cleared and armed again (the
\* handle of a timer that has fired is still set; clearing it does nothing)
handleLightboxChange ==
    /\ lightboxDebounceTimer' = "pending"
    /\ lightboxTimers' =
          ClearTimeout(lightboxTimers, lightboxDebounceTimer = "pending")
          \cup {NewTimer(ClearTimeout(lightboxTimers, lightboxDebounceTimer = "pending"))}

\* a recompute that calls processImageViewer whether or not the panel is visible
RecomputeViewerAlways(isViewerVisible) ==
    processImageViewer(viewerBars, detailPageItemData)

\* if (isViewerVisible) processImageViewer(): the panel's bars after line 654
RecomputeViewer(isViewerVisible) ==
    IF isViewerVisible THEN processImageViewer(viewerBars, detailPageItemData) ELSE viewerBars

\* the lightbox timer t fires: the callback of lines 637-655
LightboxFires(t) ==
    /\ t \in lightboxTimers
    /\ lightboxTimers' = lightboxTimers \ {t}
    /\ lightboxDebounceTimer' =
          IF lightboxDebounceTimer = "pending" /\ t = Max(lightboxTimers)
          THEN "fired" ELSE lightboxDebounceTimer
    /\ IF bars = <<>>
       THEN UNCHANGED <<bars, viewerBars, pendingScanRoots, pendingFullRescan,
                        scanDebounceTimer, scanTimers, rootTouched, selfInduced>>
       ELSE /\ bars' = [bars EXCEPT ![1].hidden = OverlayVisible(htmlLocked, viewer = "shown")]
            /\ viewerBars' = RecomputeViewer(viewer = "shown")
            /\ selfInduced' = IF observer /\ RecomputeViewer(viewer = "shown") # viewerBars
                                  /\ ~scanDebounceTimer
                              THEN TRUE ELSE selfInduced
            /\ HostNotify(InjectionRecords(CurrentPage,
                   [CurrentPage EXCEPT !.viewerBars = RecomputeViewer(viewer = "shown")]))
    /\ UNCHANGED <<pageKind, viewerImg, barInBody, attached, ctrls, header, viewer, htmlLocked>>
    /\ UNCHANGED <<pc, pendingLoads, observer, htmlObserver, viewerObserver,
                   viewerCheckInterval, pollIntervals, settingsListenerAttached, detailPageItemData>>
    /\ UNCHANGED <<cleaned, lastFlush, flushedRoots, quietScans, raised, pvars, avars, href, classed, viewerImg>>

\* a live lightbox timer fires
LightboxRecompute == \E t \in lightboxTimers : LightboxFires(t)

\* the interval's callback attaching the observer and leaving the interval live
ViewerPollNoClear ==
    /\ pollIntervals > 0
    /\ viewer # "absent"
    /\ viewerObserver # "null"
    /\ viewerObserver' = "observing"
    /\ UNCHANGED <<domvars, pc, pendingLoads, observer, htmlObserver, scanDebounceTimer, scanTimers,
                   viewerCheckInterval, pollIntervals,
                   lightboxDebounceTimer, lightboxTimers, pendingScanRoots, pendingFullRescan,
                   settingsListenerAttached, detailPageItemData, histvars, pvars, avars>>

\* a polling interval fires: connectViewerObserver, and the interval the handle
\* holds is cleared once the panel is found
ViewerPoll ==
    /\ pollIntervals > 0
    /\ viewer # "absent"
    /\ viewerObserver # "null"
    /\ viewerObserver' = "observing"
    /\ viewerCheckInterval' = FALSE
    /\ pollIntervals' = IF viewerCheckInterval THEN pollIntervals - 1 ELSE pollIntervals
    /\ UNCHANGED <<domvars, pc, pendingLoads, observer, htmlObserver, scanDebounceTimer, scanTimers,
                   lightboxDebounceTimer, lightboxTimers, pendingScanRoots, pendingFullRescan,
                   settingsListenerAttached, detailPageItemData, histvars, pvars, avars>>

\* ------------------------------------------------------------------------
\* The lifecycle: loadRate, init, handleSettingsChange, cleanup
\* ------------------------------------------------------------------------
MaxLoads == 1

\* cleanup() leaving the dirty-root set and the full-rescan flag as they are
cleanupKeepQueue ==
    /\ observer' = FALSE
    /\ htmlObserver' = FALSE
    /\ viewerObserver' = "null"
    /\ viewerCheckInterval' = FALSE
    /\ scanDebounceTimer' = FALSE
    /\ lightboxDebounceTimer' = "null"
    /\ scanTimers' = ClearTimeout(scanTimers, scanDebounceTimer)
    /\ lightboxTimers' = ClearTimeout(lightboxTimers, lightboxDebounceTimer = "pending")
    /\ pollIntervals' = IF viewerCheckInterval THEN pollIntervals - 1 ELSE pollIntervals
    /\ settingsListenerAttached' = FALSE
    /\ UNCHANGED <<pendingScanRoots, pendingFullRescan>>
    /\ cleaned' = TRUE
    /\ rootTouched' = FALSE
    /\ selfInduced' = FALSE

\* cleanup(), for the variables it assigns
cleanup ==
    /\ observer' = FALSE
    /\ htmlObserver' = FALSE
    /\ viewerObserver' = "null"
    /\ viewerCheckInterval' = FALSE
    /\ scanDebounceTimer' = FALSE
    /\ lightboxDebounceTimer' = "null"
    /\ scanTimers' = ClearTimeout(scanTimers, scanDebounceTimer)
    /\ lightboxTimers' = ClearTimeout(lightboxTimers, lightboxDebounceTimer = "pending")
    /\ pollIntervals' = IF viewerCheckInterval THEN pollIntervals - 1 ELSE pollIntervals
    /\ settingsListenerAttached' = FALSE
    /\ pendingScanRoots' = {}
    /\ pendingFullRescan' = FALSE
    /\ cleaned' = TRUE
    /\ rootTouched' = FALSE
    /\ selfInduced' = FALSE

Outcomes == {"ok", "error", "invalidated"}

\* init() is suspended in loadRate(): a sendMessage settles.  "invalidated" is a
\* rejection with 'Extension context invalidated', "error" any other rejection.
LoadRateStep(outcome) ==
    /\ pc \in {"getSettings", "getRate"}
    /\ pc' = IF outcome = "ok" /\ pc = "getSettings" THEN "getRate" ELSE "scan"
    /\ IF outcome = "invalidated"
       THEN cleanup
       ELSE UNCHANGED <<observer, htmlObserver, viewerObserver, viewerCheckInterval, pollIntervals,
                        scanDebounceTimer, scanTimers, lightboxDebounceTimer, lightboxTimers, settingsListenerAttached,
                        pendingScanRoots, pendingFullRescan, cleaned, rootTouched, selfInduced>>
    /\ UNCHANGED <<domvars, pendingLoads, detailPageItemData, lastFlush, flushedRoots, quietScans, raised, pvars, avars>>

\* init() after `await loadRate()`: the first scan, the observers, the polling
\* (an exception in scanPage rejects init's promise and nothing after it runs;
\* no scan has run before this one, so raised is set here exactly if it threw)
InitContinue ==
    /\ pc = "scan"
    /\ WritePage(scanPage(CurrentPage))
    /\ IF raised' /\ ~raised
       THEN /\ pc' = "aborted"
            /\ UNCHANGED <<quietScans, observer, htmlObserver, viewerObserver,
                           viewerCheckInterval, pollIntervals>>
       ELSE /\ pc' = "running"
            /\ quietScans' = IF quietScans < QuietCap THEN quietScans + 1 ELSE quietScans
            /\ observer' = TRUE
            /\ htmlObserver' = TRUE
            /\ viewerObserver' = IF viewer # "absent" THEN "observing" ELSE "idle"
            /\ viewerCheckInterval' = (viewer = "absent")
            /\ pollIntervals' = IF viewer = "absent" THEN pollIntervals + 1 ELSE pollIntervals
    /\ UNCHANGED <<pageKind, barInBody, attached, header, viewer, htmlLocked, href, classed, viewerImg>>
    /\ UNCHANGED <<pendingLoads, scanDebounceTimer, scanTimers, lightboxDebounceTimer, lightboxTimers, pendingScanRoots,
                   pendingFullRescan, settingsListenerAttached>>
    /\ UNCHANGED <<cleaned, rootTouched, selfInduced, lastFlush, flushedRoots, pvars, avars>>

\* handleSettingsChange with a new target currency: loadRate() is started
SettingsChange ==
    /\ settingsListenerAttached
    /\ pendingLoads < MaxLoads
    /\ pendingLoads' = pendingLoads + 1
    /\ UNCHANGED <<domvars, pc, observer, htmlObserver, viewerObserver, viewerCheckInterval, pollIntervals,
                   scanDebounceTimer, scanTimers, lightboxDebounceTimer, lightboxTimers, pendingScanRoots,
                   pendingFullRescan, settingsListenerAttached, detailPageItemData,
                   histvars, pvars, avars>>

\* a loadRate() started by handleSettingsChange settles
SettingsLoadDone(outcome) ==
    /\ pendingLoads > 0
    /\ pendingLoads' = pendingLoads - 1
    /\ IF outcome = "invalidated"
       THEN cleanup
       ELSE UNCHANGED <<observer, htmlObserver, viewerObserver, viewerCheckInterval, pollIntervals,
                        scanDebounceTimer, scanTimers, lightboxDebounceTimer, lightboxTimers, settingsListenerAttached,
                        pendingScanRoots, pendingFullRescan, cleaned, rootTouched, selfInduced>>
    /\ UNCHANGED <<domvars, pc, detailPageItemData, lastFlush, flushedRoots, quietScans, raised, pvars, avars>>

\* ------------------------------------------------------------------------
\* The controls' click handlers: createCartButton's listener and addToCart
\* ------------------------------------------------------------------------
MaxClicks == 3

\* itemData.thumbnail starts with 'http': per card, and for the detail bar
ThumbTable == <<TRUE, FALSE, FALSE, TRUE>>
ThumbHttp(ctl) ==
    IF ctl[1] = "card" THEN ThumbTable[((ctl[2] - 1) % Len(ThumbTable)) + 1] ELSE TRUE

\* the controls a user can activate
Controls ==
    {Card(c) : c \in {k \in attached : ctrls[k] # <<>>}} \cup (IF bars # <<>> THEN {Bar} ELSE {})

\* an activation of ctl is between its click and the return of its addToCart
InProgress(ctl) == \E i \in 1..Len(handlers) : handlers[i].ctl = ctl

SendOutcomes == {"ok", "invalidated"}

\* chrome.runtime.sendMessage({action: 'addToCart'}) and the rest of the click
\* handler.  "invalidated": the call throws 'Extension context invalidated',
\* addToCart rejects and the handler ends at its await, with nothing catching.
\* thumbnail is the item's thumbnail as sent: "none", "http" or "data"
SendAddToCart(ctl, thumbnail, overlap, outcome) ==
    /\ calls' = calls + 1
    /\ IF outcome = "ok"
       THEN /\ requests' = requests + 1
            /\ inflight' = Append(inflight, [ctl |-> ctl, thumbnail |-> thumbnail])
            /\ overlapRequests' = overlapRequests + (IF overlap THEN 1 ELSE 0)
            /\ reverts' = Append(reverts, ctl)
            /\ stuck' = stuck
       ELSE /\ stuck' = stuck \cup {ctl}
            /\ UNCHANGED <<requests, inflight, overlapRequests, reverts>>

\* how the image of an http thumbnail ends: onload with the canvas exported,
\* onload with the export throwing, or onerror
Conversions == {"exported", "export failed", "load failed"}

\* imageToBase64 whose onerror handler rejects
imageToBase64Rejects(conv) ==
    CASE conv = "exported" -> [settled |-> "resolved", value |-> "data"]
      [] conv = "export failed" -> [settled |-> "resolved", value |-> ""]
      [] conv = "load failed" -> [settled |-> "rejected", value |-> ""]

\* imageToBase64 on an http reference: how its promise settles and with what
imageToBase64(conv) ==
    CASE conv = "exported" -> [settled |-> "resolved", value |-> "data"]
      [] conv = "export failed" -> [settled |-> "resolved", value |-> ""]
      [] conv = "load failed" -> [settled |-> "resolved", value |-> ""]

\* a click on ctl: the handler marks the control and calls addToCart, which
\* awaits imageToBase64 for an http thumbnail and sends at once otherwise
Click(ctl, outcome) ==
    /\ clicks < MaxClicks
    /\ ctl \in Controls
    /\ clicks' = clicks + 1
    /\ busy' = busy \cup {ctl}
    /\ IF ThumbHttp(ctl)
       THEN /\ outcome = "ok"
            /\ handlers' = Append(handlers, [ctl |-> ctl, overlap |-> InProgress(ctl)])
            /\ UNCHANGED <<requests, calls, inflight, overlapRequests, reverts, stuck>>
       ELSE /\ handlers' = handlers
            /\ SendAddToCart(ctl, "none", InProgress(ctl), outcome)
    /\ UNCHANGED <<pvars, evars>>

\* imageToBase64 settles for the i-th suspended handler: resolved, addToCart
\* goes on to sendMessage; rejected, addToCart and the handler end there
ConvertDone(i, conv, outcome) ==
    /\ i \in 1..Len(handlers)
    /\ handlers' = SubSeq(handlers, 1, i - 1) \o SubSeq(handlers, i + 1, Len(handlers))
    /\ IF imageToBase64(conv).settled = "resolved"
       THEN SendAddToCart(handlers[i].ctl,
                          IF imageToBase64(conv).value # "" THEN imageToBase64(conv).value
                          ELSE "http",
                          handlers[i].overlap, outcome)
       ELSE /\ stuck' = stuck \cup {handlers[i].ctl}
            /\ UNCHANGED <<requests, calls, inflight, overlapRequests, reverts>>
    /\ UNCHANGED <<clicks, busy, pvars, evars>>

\* the service worker answers the k-th message in flight: the callback of
\* sendMessage runs (it logs, and shows a toast on success)
Respond(k) ==
    /\ k \in 1..Len(inflight)
    /\ inflight' = SubSeq(inflight, 1, k - 1) \o SubSeq(inflight, k + 1, Len(inflight))
    /\ UNCHANGED <<clicks, handlers, requests, calls, overlapRequests, busy, stuck, reverts,
                   pvars, evars>>

\* the oldest 1500 ms timer fires: the control goes back to 'Add to Cart'
Revert ==
    /\ reverts # <<>>
    /\ reverts' = Tail(reverts)
    /\ busy' = busy \ {Head(reverts)}
    /\ UNCHANGED <<clicks, handlers, requests, calls, inflight, overlapRequests, stuck, pvars, evars>>

\* ------------------------------------------------------------------------
\* The host page
\* ------------------------------------------------------------------------
HostFrame ==
    UNCHANGED <<pageKind, barInBody, pc, pendingLoads, observer, htmlObserver,
                viewerCheckInterval, pollIntervals, settingsListenerAttached, detailPageItemData,
                cleaned, lastFlush, flushedRoots, raised, pvars, avars, href, classed, viewerImg>>

\* a card is attached to the grid container
HostAttachCard(c) ==
    /\ pageKind = "listing" /\ c \notin attached
    /\ attached' = attached \cup {c}
    /\ HostNotify(<<Rec(Container, <<ElemNode(Card(c))>>)>>)
    /\ quietScans' = 0 /\ selfInduced' = FALSE
    /\ UNCHANGED <<ctrls, header, bars, viewer, viewerBars, htmlLocked, viewerObserver,
                   lightboxDebounceTimer, lightboxTimers>>
    /\ HostFrame

\* a card is removed from the grid container
HostDetachCard(c) ==
    /\ pageKind = "listing" /\ c \in attached
    /\ attached' = attached \ {c}
    /\ HostNotify(<<Rec(Container, <<>>)>>)
    /\ quietScans' = 0 /\ selfInduced' = FALSE
    /\ UNCHANGED <<ctrls, header, bars, viewer, viewerBars, htmlLocked, viewerObserver,
                   lightboxDebounceTimer, lightboxTimers>>
    /\ HostFrame

\* the host re-renders a card's content, dropping the injected overlay
HostStripCard(c) ==
    /\ pageKind = "listing" /\ c \in attached /\ ctrls[c] # <<>>
    /\ ctrls' = [ctrls EXCEPT ![c] = <<>>]
    /\ HostNotify(<<Rec(Card(c), <<>>)>>)
    /\ quietScans' = 0 /\ selfInduced' = FALSE
    /\ UNCHANGED <<attached, header, bars, viewer, viewerBars, htmlLocked, viewerObserver,
                   lightboxDebounceTimer, lightboxTimers>>
    /\ HostFrame

\* the host sets the class of a card's element: the body observer watches child
\* lists only (line 631), so no record reaches the callback
HostSetClass(c) ==
    /\ pageKind = "listing" /\ c \notin classed
    /\ classed' = classed \cup {c}
    /\ quietScans' = 0 /\ selfInduced' = FALSE
    /\ UNCHANGED <<pageKind, viewerImg, barInBody, attached, ctrls, header, bars, viewer, viewerBars,
                   htmlLocked, href, engvars, cleaned, rootTouched, lastFlush, flushedRoots,
                   raised, pvars, avars>>

\* a plain element holding no candidate is appended to <body>
HostBodyMutation ==
    /\ HostNotify(<<Rec(Body, <<ElemNode(Plain)>>)>>)
    /\ selfInduced' = FALSE
    /\ UNCHANGED <<attached, ctrls, header, bars, viewer, viewerBars, htmlLocked,
                   viewerObserver, lightboxDebounceTimer, lightboxTimers, quietScans>>
    /\ HostFrame

\* the header title's text is replaced
HostSetHeader(h) ==
    /\ pageKind = "detail" /\ header # 0 /\ h # header
    /\ header' = h
    /\ HostNotify(<<Rec(HeaderEl, <<TextNode(HeaderEl)>>)>>)
    /\ quietScans' = 0 /\ selfInduced' = FALSE
    /\ UNCHANGED <<attached, ctrls, bars, viewer, viewerBars, htmlLocked, viewerObserver,
                   lightboxDebounceTimer, lightboxTimers>>
    /\ HostFrame

\* the host replaces the subtitle element below the header area
HostSetLink(h) ==
    /\ pageKind = "detail" /\ href # h
    /\ href' = h
    /\ HostNotify(<<Rec(HeaderParent, <<ElemNode(Plain)>>)>>)
    /\ quietScans' = 0 /\ selfInduced' = FALSE
    /\ UNCHANGED <<pageKind, barInBody, attached, classed, viewerImg, ctrls, header, bars, viewer,
                   viewerBars, htmlLocked>>
    /\ UNCHANGED <<pc, pendingLoads, observer, htmlObserver, viewerObserver,
                   viewerCheckInterval, pollIntervals, lightboxDebounceTimer, lightboxTimers,
                   settingsListenerAttached, detailPageItemData>>
    /\ UNCHANGED <<cleaned, lastFlush, flushedRoots, raised, pvars, avars>>

\* the host re-renders the header area, dropping the injected bar
HostRemoveBar ==
    /\ pageKind = "detail" /\ bars # <<>>
    /\ bars' = <<>>
    /\ HostNotify(<<Rec(IF barInBody THEN Body ELSE HeaderParent, <<>>)>>)
    /\ quietScans' = 0 /\ selfInduced' = FALSE
    /\ UNCHANGED <<attached, ctrls, header, viewer, viewerBars, htmlLocked, viewerObserver,
                   lightboxDebounceTimer, lightboxTimers>>
    /\ HostFrame

\* the overlay panel is appended to <body>, hidden or shown
HostAddViewer(display) ==
    /\ pageKind = "detail" /\ viewer = "absent"
    /\ viewer' = display
    /\ HostNotify(<<Rec(Body, <<ElemNode(Viewer)>>)>>)
    /\ quietScans' = 0 /\ selfInduced' = FALSE
    /\ UNCHANGED <<attached, ctrls, header, bars, viewerBars, htmlLocked, viewerObserver,
                   lightboxDebounceTimer, lightboxTimers>>
    /\ HostFrame

\* the overlay panel is removed from <body>; an observer attached to it stays
\* attached to the detached element
HostRemoveViewer ==
    /\ pageKind = "detail" /\ viewer # "absent"
    /\ viewer' = "absent"
    /\ viewerBars' = <<>>
    /\ viewerObserver' = IF viewerObserver = "observing" THEN "stale" ELSE viewerObserver
    /\ HostNotify(<<Rec(Body, <<>>)>>)
    /\ quietScans' = 0 /\ selfInduced' = FALSE
    /\ UNCHANGED <<attached, ctrls, header, bars, htmlLocked, lightboxDebounceTimer, lightboxTimers>>
    /\ HostFrame

\* the panel's style changes between display:none and shown
HostSetViewerDisplay ==
    /\ pageKind = "detail" /\ viewer # "absent"
    /\ viewer' = IF viewer = "none" THEN "shown" ELSE "none"
    /\ IF viewerObserver = "observing"
       THEN handleLightboxChange ELSE UNCHANGED <<lightboxDebounceTimer, lightboxTimers>>
    /\ quietScans' = 0 /\ selfInduced' = FALSE
    /\ UNCHANGED <<attached, ctrls, header, bars, viewerBars, htmlLocked, viewerObserver,
                   pendingScanRoots, pendingFullRescan, scanDebounceTimer, scanTimers, rootTouched>>
    /\ HostFrame

\* <html> gets or loses the scroll lock (overflow:hidden; position:fixed)
HostToggleLock ==
    /\ pageKind = "detail"
    /\ htmlLocked' = ~htmlLocked
    /\ IF htmlObserver THEN handleLightboxChange ELSE UNCHANGED <<lightboxDebounceTimer, lightboxTimers>>
    /\ quietScans' = 0 /\ selfInduced' = FALSE
    /\ UNCHANGED <<attached, ctrls, header, bars, viewer, viewerBars, viewerObserver,
                   pendingScanRoots, pendingFullRescan, scanDebounceTimer, scanTimers, rootTouched>>
    /\ HostFrame

\* the children of one more plain element change (the elements are alike, so
\* they are touched in order), or those of the first one change again
NumFillers == 80

FillersQueued == Cardinality({r \in pendingScanRoots : r[1] = "filler"})

HostMutateFiller(i) ==
    /\ HostNotify(<<Rec(Filler(i), <<>>)>>)
    /\ selfInduced' = FALSE
    /\ UNCHANGED <<attached, ctrls, header, bars, viewer, viewerBars, htmlLocked,
                   viewerObserver, lightboxDebounceTimer, lightboxTimers, quietScans>>
    /\ HostFrame

\* ------------------------------------------------------------------------
\* Specifications
\* ------------------------------------------------------------------------
\* the currencies of the settings; the script starts with 'USD' and no rate
Currencies == {"USD", "EUR", "GBP"}
NoRate == [target |-> "null"]
NotRendered == [symbol |-> "unset", rate |-> "unset"]
EmptyRendering == [symbol |-> "", rate |-> ""]

\* the currency variables while another specification runs
RateParked ==
    /\ storedCurrency = "USD" /\ targetCurrency = "USD" /\ exchangeRate = NoRate
    /\ loads = <<>> /\ rendered = NotRendered

\* the cart variables while another specification runs
CartParked == cart = <<>> /\ units = <<>> /\ ops = <<>>

\* the extractor's variables while the engine runs
PriceParked ==
    /\ input = [kind |-> "free", shape |-> 0, expect |-> None, text |-> <<>>,
                pre |-> <<>>, post |-> <<>>]
    /\ price = Unset /\ title = NoTitle
    /\ imgEl = NoImg /\ thumb = Unresolved
    /\ RateParked /\ CartParked

\* the state when the script has been evaluated and init() awaits getSettings
EngineStart ==
    /\ pc = "getSettings"
    /\ pendingLoads = 0
    /\ observer = FALSE
    /\ htmlObserver = FALSE
    /\ viewerObserver = "null"
    /\ viewerCheckInterval = FALSE
    /\ scanDebounceTimer = FALSE
    /\ lightboxDebounceTimer = "null"
    /\ scanTimers = {} /\ lightboxTimers = {} /\ pollIntervals = 0
    /\ pendingScanRoots = {}
    /\ pendingFullRescan = FALSE
    /\ settingsListenerAttached = TRUE
    /\ detailPageItemData = NoData
    /\ cleaned = FALSE
    /\ rootTouched = FALSE
    /\ selfInduced = FALSE
    /\ lastFlush = "none"
    /\ flushedRoots = {}
    /\ quietScans = 0
    /\ raised = FALSE
    /\ clicks = 0 /\ handlers = <<>> /\ requests = 0 /\ overlapRequests = 0
    /\ calls = 0 /\ inflight = <<>>
    /\ busy = {} /\ stuck = {} /\ reverts = <<>>

ListingPage ==
    /\ pageKind = "listing"
    /\ barInBody = FALSE
    /\ attached \in SUBSET Cards
    /\ header = 0
    /\ viewer = "absent"

DetailPage ==
    /\ pageKind = "detail"
    /\ barInBody \in BOOLEAN
    /\ attached = {}
    /\ header \in Headers
    /\ viewer \in {"absent", "none", "shown"}

\* a redirect link that decodes: "h" stands for https://x.yupoo.com/external
GoodLink == <<"h", "?", "u", "r", "l", "=", "%", "2", "5">>

PageStart ==
    /\ ListingPage \/ DetailPage
    /\ href = IF pageKind = "detail" THEN Anchor(GoodLink) ELSE NoSubtitle
    /\ classed = Cards
    /\ ctrls = [c \in Cards |-> <<>>]
    /\ bars = <<>>
    /\ viewerBars = <<>>
    /\ htmlLocked = FALSE /\ viewerImg = PanelImg

Init == PriceParked /\ EngineStart /\ PageStart

Next ==
    \/ \E o \in Outcomes : LoadRateStep(o)
    \/ InitContinue
    \/ SettingsChange
    \/ \E o \in Outcomes : SettingsLoadDone(o)
    \/ flushQueuedScans
    \/ LightboxRecompute
    \/ ViewerPoll
    \/ \E c \in Cards : HostAttachCard(c)
    \/ \E c \in Cards : HostDetachCard(c)
    \/ \E c \in Cards : HostStripCard(c)
    \/ HostBodyMutation
    \/ \E h \in Headers : HostSetHeader(h)
    \/ HostRemoveBar
    \/ \E d \in {"none", "shown"} : HostAddViewer(d)
    \/ HostRemoveViewer
    \/ HostSetViewerDisplay
    \/ HostToggleLock

Spec == Init /\ [][Next]_vars

\* the listing page under a mutation storm
StormInit == PriceParked /\ EngineStart /\ PageStart /\ pageKind = "listing" /\ attached = Cards

StormNext ==
    \/ LoadRateStep("ok")
    \/ InitContinue
    \/ flushQueuedScans
    \/ \E c \in Cards : HostAttachCard(c)
    \/ \E c \in Cards : HostDetachCard(c)
    \/ HostBodyMutation
    \/ \E i \in {1, FillersQueued + 1} \cap 1..NumFillers : HostMutateFiller(i)

StormSpec == StormInit /\ [][StormNext]_vars

\* a detail page whose overlay panel shows one of several images
PlaceholderImg == [origin |-> [scheme |-> "data", len |-> SmallDataLimit - 1], lazy |-> EmptyStr,
                   src |-> [scheme |-> "data", len |-> SmallDataLimit]]
InlineImg == [origin |-> NullUrl, lazy |-> [scheme |-> "other", len |-> SmallDataLimit + 1],
              src |-> [scheme |-> "data", len |-> SmallDataLimit + 1]]
PanelImgs == {NoImg, PanelImg, PlaceholderImg, InlineImg}

ViewerInit ==
    /\ PriceParked /\ EngineStart
    /\ pageKind = "detail" /\ barInBody = FALSE /\ attached = {} /\ classed = Cards
    /\ viewer \in {"absent", "shown"}
    /\ header \in {0, 1, 2}
    /\ href = Anchor(GoodLink)
    /\ ctrls = [c \in Cards |-> <<>>] /\ bars = <<>> /\ viewerBars = <<>>
    /\ htmlLocked = FALSE /\ viewerImg \in PanelImgs

ViewerNext ==
    \/ LoadRateStep("ok")
    \/ InitContinue
    \/ flushQueuedScans
    \/ LightboxRecompute
    \/ ViewerPoll
    \/ \E display \in {"none", "shown"} : HostAddViewer(display)
    \/ HostRemoveViewer
    \/ HostSetViewerDisplay
    \/ HostToggleLock
    \/ \E h \in Headers : HostSetHeader(h)

ViewerSpec == ViewerInit /\ [][ViewerNext]_vars

\* a redirect link whose parameter cannot be decoded
BadLink == <<"h", "?", "u", "r", "l", "=", "%">>

\* a detail page whose header, subtitle link and overlay panel the host changes
OverlayInit ==
    /\ PriceParked /\ EngineStart
    /\ pageKind = "detail" /\ barInBody = FALSE /\ attached = {} /\ classed = Cards
    /\ viewer \in {"absent", "shown"}
    /\ header \in Headers
    /\ href \in {Anchor(GoodLink), Anchor(BadLink)}
    /\ ctrls = [c \in Cards |-> <<>>] /\ bars = <<>> /\ viewerBars = <<>>
    /\ htmlLocked = FALSE /\ viewerImg = PanelImg

OverlayNext ==
    \/ LoadRateStep("ok")
    \/ InitContinue
    \/ flushQueuedScans
    \/ \E h \in Headers : HostSetHeader(h)
    \/ \E h \in {Anchor(GoodLink), Anchor(BadLink)} : HostSetLink(h)
    \/ HostRemoveBar
    \/ \E d \in {"none", "shown"} : HostAddViewer(d)
    \/ HostRemoveViewer
    \/ HostMutateFiller(1)
    \/ HostBodyMutation

OverlaySpec == OverlayInit /\ [][OverlayNext]_vars

\* a grid whose cards are attached, detached, re-rendered and given their class
\* while unrelated elements change
ScopedInit ==
    /\ PriceParked /\ EngineStart
    /\ pageKind = "listing" /\ barInBody = FALSE /\ header = 0 /\ viewer = "absent"
    /\ attached \in SUBSET Cards /\ classed \in SUBSET Cards
    /\ href = NoSubtitle
    /\ ctrls = [c \in Cards |-> <<>>] /\ bars = <<>> /\ viewerBars = <<>>
    /\ htmlLocked = FALSE /\ viewerImg = PanelImg

ScopedNext ==
    \/ LoadRateStep("ok")
    \/ InitContinue
    \/ flushQueuedScans
    \/ \E c \in Cards : HostAttachCard(c)
    \/ \E c \in Cards : HostDetachCard(c)
    \/ \E c \in Cards : HostStripCard(c)
    \/ \E c \in Cards : HostSetClass(c)
    \/ HostMutateFiller(1)
    \/ HostBodyMutation

ScopedSpec == ScopedInit /\ [][ScopedNext]_vars

\* a scan timer that is armed and not cleared fires (setTimeout, line 617):
\* weak fairness of flushQueuedScans, which is enabled exactly while a scan
\* timer is live, written with that guard in place of ENABLED
TimersFire == []<>(scanTimers = {}) \/ []<><<flushQueuedScans>>_vars

\* the same grid with time passing
LiveSpec == ScopedInit /\ [][ScopedNext]_vars /\ TimersFire

\* the engine's start-up and settings traffic, and the user activating controls
ActivationNext ==
    \/ \E o \in Outcomes : LoadRateStep(o)
    \/ InitContinue
    \/ SettingsChange
    \/ \E o \in Outcomes : SettingsLoadDone(o)
    \/ \E ctl \in Controls, o \in SendOutcomes : Click(ctl, o)
    \/ \E i \in 1..MaxClicks, conv \in Conversions, o \in SendOutcomes : ConvertDone(i, conv, o)
    \/ \E k \in 1..MaxClicks : Respond(k)
    \/ Revert

ActivationSpec == Init /\ [][ActivationNext]_vars

\* a detail page with any of the subtitles, its header priced or not at first
LinkInit ==
    /\ PriceParked /\ EngineStart
    /\ pageKind = "detail" /\ barInBody = FALSE /\ attached = {} /\ viewer = "absent"
    /\ header \in {1, 3}
    /\ href \in Subtitles /\ classed = Cards
    /\ ctrls = [c \in Cards |-> <<>>] /\ bars = <<>> /\ viewerBars = <<>>
    /\ htmlLocked = FALSE /\ viewerImg = PanelImg

LinkNext ==
    \/ LoadRateStep("ok")
    \/ InitContinue
    \/ flushQueuedScans
    \/ \E h \in Headers : HostSetHeader(h)
    \/ HostRemoveBar
    \/ HostBodyMutation

LinkSpec == LinkInit /\ [][LinkNext]_vars

\* ------------------------------------------------------------------------
\* Properties of the engine
\* ------------------------------------------------------------------------
\* the card's title shows a price between 0 and 999999
Priced(c) == CardTitle(c).expect # None

\* C1: injection is idempotent.  No card ever carries two controls, whatever
\* scans and flushes have run; and once a full scan has run with no change by the
\* host to a candidate since, every attached card with a price carries exactly one.
C1_ExactlyOneControl ==
    /\ \A c \in Cards : Len(ctrls[c]) <= 1
    /\ quietScans >= 1 => \A c \in attached : Priced(c) => Len(ctrls[c]) = 1

\* the full scan has run twice over an unchanged grid, and a card matching both
\* selectors carries its one control
C1_Witness ==
    /\ quietScans >= 2
    /\ \E c \in attached : CardKind(c) = "both" /\ Len(ctrls[c]) = 1

NothingLive ==
    /\ ~observer /\ ~htmlObserver /\ viewerObserver \notin {"observing", "stale"}
    /\ ~scanDebounceTimer /\ lightboxDebounceTimer # "pending" /\ ~viewerCheckInterval
    /\ pendingScanRoots = {} /\ ~pendingFullRescan

\* C2: once cleanup has run, no observer is connected, no timer or interval is
\* live, the dirty-root set is empty and the full-rescan flag is clear.
C2_TeardownIsFinal == cleaned => NothingLive

\* the step is a run of cleanup()
CleanupStep == LoadRateStep("invalidated") \/ SettingsLoadDone("invalidated")

\* what a callback that queues the elements N must leave behind
QueuedOrCollapsed(N) ==
    IF Cardinality(pendingScanRoots \cup N) > 80
    THEN pendingFullRescan' /\ pendingScanRoots' = {}
    ELSE ~pendingFullRescan' /\ pendingScanRoots' = pendingScanRoots \cup N

\* C3: the dirty-root set never holds more than 80 elements; a notification that
\* brings the distinct queued elements above 80 sets the full-rescan flag and
\* empties the set, and one that brings them to 80 or fewer adds them and leaves
\* the flag unset.
C3_BoundedDirtyRoots ==
    /\ [](Cardinality(pendingScanRoots) <= 80)
    /\ [][observer /\ ~pendingFullRescan =>
            /\ \A i \in {1, FillersQueued + 1} \cap 1..NumFillers :
                  HostMutateFiller(i) => QueuedOrCollapsed({Filler(i)})
            /\ \A c \in Cards : HostAttachCard(c) => QueuedOrCollapsed({Container, Card(c)})
            /\ \A c \in Cards : HostDetachCard(c) => QueuedOrCollapsed({Container})]_vars

\* the set overflowed: the flag is set though no notification touched the body
C3_Witness == pendingFullRescan /\ ~rootTouched /\ pendingScanRoots = {}

\* C4: a flush that follows a notification touching the document, <html> or
\* <body> takes the full branch and leaves the page as scanPage leaves it.
C4_RootMutationForcesFullScan ==
    [][rootTouched /\ flushQueuedScans =>
          /\ lastFlush' = "full"
          /\ ctrls' = scanPage(CurrentPage).ctrls
          /\ bars' = scanPage(CurrentPage).bars
          /\ viewerBars' = scanPage(CurrentPage).viewerBars
          /\ detailPageItemData' = scanPage(CurrentPage).data]_vars

\* a full flush has run after the host changed the grid, and every attached card
\* with a price carries its control
C4_Witness ==
    /\ lastFlush = "full" /\ quietScans = 1 /\ attached # {}
    /\ \A c \in attached : Priced(c) /\ Len(ctrls[c]) = 1

\* C5: while the full-rescan flag is set, every step other than the flush (and
\* teardown) leaves it set and leaves the dirty-root set empty.
C5_FlagNeverDowngraded ==
    [][pendingFullRescan =>
          \/ pendingFullRescan' /\ pendingScanRoots' = {}
          \/ flushQueuedScans
          \/ CleanupStep]_vars

\* the flag is pending while an attached card with a price still awaits its scan
C5_Witness ==
    /\ pendingFullRescan /\ scanDebounceTimer /\ pendingScanRoots = {}
    /\ \E c \in attached : Priced(c) /\ ctrls[c] = <<>>

InPriceRange(p) == (p.int > 0 \/ p.frac # <<>>) /\ p.int <= 999998

\* C6: every control of every detector carries a price p with 0 < p < 999999,
\* a card control carries the price its card's title shows, and a card whose
\* title shows no such price carries no control.
C6_NoControlWithoutPrice ==
    /\ \A c \in Cards :
          /\ ~Priced(c) => ctrls[c] = <<>>
          /\ \A k \in 1..Len(ctrls[c]) :
                InPriceRange(ctrls[c][k].price) /\ ctrls[c][k].price = CardTitle(c).expect
    /\ \A k \in 1..Len(bars) : InPriceRange(bars[k].desc.price)
    /\ \A k \in 1..Len(viewerBars) : InPriceRange(viewerBars[k].price)
    /\ detailPageItemData # NoData => InPriceRange(detailPageItemData.price)

\* a full scan has passed over a card whose title shows no price in range and
\* left it bare, while another card got its control
C6_Witness ==
    /\ quietScans >= 1
    /\ \E c \in attached : ~Priced(c) /\ ctrls[c] = <<>>
    /\ \E c \in attached : ctrls[c] # <<>>

\* C7: after a recompute that finds the detail bar, the bar is force-hidden
\* exactly when <html> is scroll-locked or the panel exists and is not
\* display:none.
C7_ForcedHideIffVisible ==
    [][bars # <<>> /\ LightboxRecompute =>
          /\ bars' # <<>>
          /\ bars'[1].hidden <=> (htmlLocked \/ viewer = "shown")]_vars

\* a recompute has run with the panel display:none and <html> unlocked, and the
\* bar carries no override
C7_Witness ==
    /\ lightboxDebounceTimer = "fired" /\ bars # <<>> /\ ~bars[1].hidden
    /\ viewer = "none" /\ ~htmlLocked

\* ------------------------------------------------------------------------
\* PriceSpec: extractPrice applied to one input
\* ------------------------------------------------------------------------
\* the engine's variables while the extractor is exercised
EngineParked ==
    /\ EngineStart
    /\ pageKind = "listing" /\ barInBody = FALSE /\ attached = {} /\ header = 0
    /\ viewer = "absent" /\ ctrls = [c \in Cards |-> <<>>] /\ bars = <<>>
    /\ viewerBars = <<>> /\ htmlLocked = FALSE /\ href = NoSubtitle /\ classed = Cards
    /\ viewerImg = PanelImg

PriceInit ==
    /\ input \in Inputs /\ price = Unset /\ title = NoTitle
    /\ imgEl = NoImg /\ thumb = Unresolved
    /\ RateParked /\ CartParked
    /\ EngineParked

\* one candidate whose title text is input.text goes through the forEach body:
\* its price is extracted and, when there is one, its descriptor's title is built
Extract ==
    /\ price = Unset
    /\ price' = extractPrice(input.text)
    /\ title' = IF Falsy(price') THEN NoTitle ELSE [built |-> TRUE, text |-> cleanTitle(input.text)]
    /\ UNCHANGED <<input, imgEl, thumb, rvars, cvars, evars, avars>>

PriceNext == Extract

PriceSpec == PriceInit /\ [][PriceNext]_vars

\* ------------------------------------------------------------------------
\* loadRate, handleSettingsChange and formatConverted on their own
\* ------------------------------------------------------------------------
MaxInflight == 2

RateOutcomes == {"rate", "no rate", "error", "invalidated"}

\* the script has been evaluated on some stored currency; init() has called
\* loadRate(), whose getSettings message is in flight
RateInit ==
    /\ input = [kind |-> "free", shape |-> 0, expect |-> None, text |-> <<>>,
                pre |-> <<>>, post |-> <<>>]
    /\ price = Unset /\ title = NoTitle
    /\ imgEl = NoImg /\ thumb = Unresolved
    /\ storedCurrency \in Currencies /\ targetCurrency = "USD" /\ exchangeRate = NoRate
    /\ loads = <<[phase |-> "getSettings", currency |-> "USD"]>>
    /\ rendered = NotRendered
    /\ CartParked
    /\ EngineParked

\* what the steps of RateSpec leave alone, cleanup's variables apart
RateFrame ==
    UNCHANGED <<input, price, title, imgEl, thumb, cvars, domvars, pc, pendingLoads,
                detailPageItemData, lastFlush, flushedRoots, quietScans, raised, avars>>

NoCleanup ==
    UNCHANGED <<observer, htmlObserver, viewerObserver, viewerCheckInterval, pollIntervals,
                scanDebounceTimer, scanTimers, lightboxDebounceTimer, lightboxTimers,
                settingsListenerAttached, pendingScanRoots, pendingFullRescan, cleaned,
                rootTouched, selfInduced>>

Without(seq, i) == SubSeq(seq, 1, i - 1) \o SubSeq(seq, i + 1, Len(seq))

\* the settings in chrome.storage.sync get currency c: handleSettingsChange
\* sets targetCurrency and starts loadRate() when c differs from it
StoreCurrency(c) ==
    /\ c # storedCurrency
    /\ Len(loads) < MaxInflight
    /\ storedCurrency' = c
    /\ IF settingsListenerAttached /\ c # targetCurrency
       THEN /\ targetCurrency' = c
            /\ loads' = Append(loads, [phase |-> "getSettings", currency |-> c])
       ELSE UNCHANGED <<targetCurrency, loads>>
    /\ UNCHANGED <<exchangeRate, rendered>>
    /\ NoCleanup /\ RateFrame

\* the i-th loadRate() gets the answer to getSettings: targetCurrency becomes
\* the stored currency and getRate is sent for it; or the message is rejected
GetSettingsAnswer(i, outcome) ==
    /\ i \in 1..Len(loads) /\ loads[i].phase = "getSettings"
    /\ outcome \in {"rate", "error", "invalidated"}
    /\ IF outcome = "rate"
       THEN /\ targetCurrency' = storedCurrency
            /\ loads' = [loads EXCEPT ![i] = [phase |-> "getRate", currency |-> storedCurrency]]
            /\ NoCleanup
       ELSE /\ loads' = Without(loads, i)
            /\ UNCHANGED targetCurrency
            /\ IF outcome = "invalidated" THEN cleanup ELSE NoCleanup
    /\ UNCHANGED <<storedCurrency, exchangeRate, rendered>>
    /\ RateFrame

\* if (rateResp?.rateData) exchangeRate = rateResp.rateData
AssignRate(rate, outcome, currency) ==
    IF outcome = "rate" THEN [target |-> currency] ELSE rate

\* the i-th loadRate() gets the answer to getRate, with the rate data of the
\* currency it asked for or with none; or the message is rejected
GetRateAnswer(i, outcome) ==
    /\ i \in 1..Len(loads) /\ loads[i].phase = "getRate"
    /\ exchangeRate' = AssignRate(exchangeRate, outcome, loads[i].currency)
    /\ loads' = Without(loads, i)
    /\ IF outcome = "invalidated" THEN cleanup ELSE NoCleanup
    /\ UNCHANGED <<storedCurrency, targetCurrency, rendered>>
    /\ RateFrame

\* formatConverted: '' without a rate, else the symbol of targetCurrency and
\* the price multiplied by exchangeRate.rate
formatConverted(rate, currency) ==
    IF rate = NoRate THEN EmptyRendering ELSE [symbol |-> currency, rate |-> rate.target]

\* a detector renders a converted price
Render ==
    /\ rendered' = formatConverted(exchangeRate, targetCurrency)
    /\ rendered' # rendered
    /\ UNCHANGED <<storedCurrency, targetCurrency, exchangeRate, loads>>
    /\ NoCleanup /\ RateFrame

RateNext ==
    \/ \E c \in Currencies : StoreCurrency(c)
    \/ \E i \in 1..MaxInflight, o \in RateOutcomes : GetSettingsAnswer(i, o)
    \/ \E i \in 1..MaxInflight, o \in RateOutcomes : GetRateAnswer(i, o)
    \/ Render

RateSpec == RateInit /\ [][RateNext]_vars

\* ------------------------------------------------------------------------
\* The service worker's cart: addToCart, scrapeSubtitle, removeFromCart,
\* updateQuantity (src/background/service-worker.js)
\* ------------------------------------------------------------------------
\* An item is [title, vendor, price, subtitle, url]; an entry adds id and
\* quantity (thumbnail and addedAt play no part).  The id of a new entry is
\* the number of the operation that creates it.
MaxRequests == 2

Item(t, v, sub) == [title |-> t, vendor |-> v, price |-> 160, subtitle |-> sub, url |-> "yupoo"]
Items == {Item("t", "v", ""), Item("u", "v", "s"), Item("", "v", "s"), Item("t", "", "s")}

Requests ==
    {[kind |-> "add", item |-> it, id |-> 0, quantity |-> 0, found |-> FALSE] : it \in Items}
    \cup {[kind |-> "remove", item |-> Item("", "", ""), id |-> 1, quantity |-> 0, found |-> FALSE]}
    \cup {[kind |-> "update", item |-> Item("", "", ""), id |-> 1, quantity |-> q, found |-> FALSE] :
             q \in {0, 3}}

ScrapeOf(id, found) ==
    [kind |-> "scrape", item |-> Item("", "", ""), id |-> id, quantity |-> 0, found |-> found]

\* cart.find(i => i.title === item.title && i.vendor === item.vendor &&
\* i.price === item.price): the index of the first such entry, or 0
FindTriple(c, item) ==
    IF \E k \in 1..Len(c) : c[k].title = item.title /\ c[k].vendor = item.vendor
                              /\ c[k].price = item.price
    THEN CHOOSE k \in 1..Len(c) :
            /\ c[k].title = item.title /\ c[k].vendor = item.vendor /\ c[k].price = item.price
            /\ \A j \in 1..(k - 1) :
                  ~(c[j].title = item.title /\ c[j].vendor = item.vendor /\ c[j].price = item.price)
    ELSE 0

\* cart.find(i => i.id === itemId)
FindId(c, id) ==
    IF \E k \in 1..Len(c) : c[k].id = id
    THEN CHOOSE k \in 1..Len(c) : c[k].id = id /\ \A j \in 1..(k - 1) : c[j].id # id
    ELSE 0

\* the entry cart.push stores for an item
NewEntry(item, id) ==
    [id |-> id,
     title |-> IF item.title = "" THEN "Untitled Item" ELSE item.title,
     vendor |-> IF item.vendor = "" THEN "Unknown" ELSE item.vendor,
     price |-> item.price, subtitle |-> item.subtitle, url |-> item.url, quantity |-> 1]

\* the cart addToCart saves, from the cart c it read
AddedTo(c, item, id) ==
    IF FindTriple(c, item) # 0
    THEN [c EXCEPT ![FindTriple(c, item)].quantity = @ + 1]
    ELSE Append(c, NewEntry(item, id))

\* const target = existing || cart[cart.length - 1]
TargetOf(c, item, n) ==
    IF FindTriple(c, item) # 0 THEN c[FindTriple(c, item)] ELSE NewEntry(item, n)

\* the cart removeFromCart saves
RemovedFrom(c, id) == SelectSeq(c, LAMBDA e : e.id # id)

\* the cart updateQuantity saves
UpdatedIn(c, id, quantity) ==
    IF FindId(c, id) # 0
    THEN [c EXCEPT ![FindId(c, id)].quantity = IF quantity > 1 THEN quantity ELSE 1]
    ELSE c

\* scrapeSubtitle saves only when the entry is there and has no subtitle
ScrapeSaves(c, id) == FindId(c, id) # 0 /\ c[FindId(c, id)].subtitle = ""
ScrapedIn(c, id) ==
    IF ScrapeSaves(c, id) THEN [c EXCEPT ![FindId(c, id)].subtitle = "s"] ELSE c

\* what operation u saves when it has read cart c; n is its number
Saved(c, u, n) ==
    CASE u.kind = "add" -> AddedTo(c, u.item, n)
      [] u.kind = "remove" -> RemovedFrom(c, u.id)
      [] u.kind = "update" -> UpdatedIn(c, u.id, u.quantity)
      [] u.kind = "scrape" -> IF u.found THEN ScrapedIn(c, u.id) ELSE c

CartInit ==
    /\ input = [kind |-> "free", shape |-> 0, expect |-> None, text |-> <<>>,
                pre |-> <<>>, post |-> <<>>]
    /\ price = Unset /\ title = NoTitle
    /\ imgEl = NoImg /\ thumb = Unresolved
    /\ RateParked
    /\ cart = <<>> /\ units = <<>> /\ ops = <<>>
    /\ EngineParked

CartFrame == UNCHANGED <<input, price, title, imgEl, thumb, rvars, evars, avars>>

Requested == Cardinality({k \in 1..Len(units) : units[k].kind # "scrape"})

\* a message reaches onMessage: the operation starts and awaits getCart()
Request(r) ==
    /\ Requested < MaxRequests
    /\ units' = Append(units, r)
    /\ ops' = Append(ops, [unit |-> Len(units) + 1, pc |-> "read", local |-> <<>>])
    /\ UNCHANGED cart
    /\ CartFrame

\* a message reaches onMessage while no operation is in flight
RequestWhenIdle(r) == ops = <<>> /\ Request(r)

\* getCart() answers the i-th operation in flight
ReadCart(i) ==
    /\ i \in 1..Len(ops) /\ ops[i].pc = "read"
    /\ ops' = [ops EXCEPT ![i] = [unit |-> ops[i].unit, pc |-> "write", local |-> cart]]
    /\ UNCHANGED <<cart, units>>
    /\ CartFrame

\* the i-th operation changes the cart it read and saves it; addToCart then
\* starts scrapeSubtitle for a target without subtitle, whose fetch finds a
\* source link or not
WriteCart(i, found) ==
    /\ i \in 1..Len(ops) /\ ops[i].pc = "write"
    /\ cart' = IF units[ops[i].unit].kind = "scrape" /\ ~ScrapeSaves(ops[i].local, units[ops[i].unit].id)
               THEN cart
               ELSE Saved(ops[i].local, units[ops[i].unit], ops[i].unit)
    /\ IF /\ units[ops[i].unit].kind = "add"
          /\ TargetOf(ops[i].local, units[ops[i].unit].item, ops[i].unit).subtitle = ""
       THEN /\ units' = Append(units,
                           ScrapeOf(TargetOf(ops[i].local, units[ops[i].unit].item,
                                             ops[i].unit).id, found))
            /\ ops' = Append(Without(ops, i),
                             [unit |-> Len(units) + 1, pc |-> "fetch", local |-> <<>>])
       ELSE /\ ~found
            /\ units' = units
            /\ ops' = Without(ops, i)
    /\ CartFrame

\* the fetch of scrapeSubtitle ends: with a source link it goes on to getCart(),
\* without one it returns
FetchDone(i) ==
    /\ i \in 1..Len(ops) /\ ops[i].pc = "fetch"
    /\ ops' = IF units[ops[i].unit].found
              THEN [ops EXCEPT ![i] = [unit |-> ops[i].unit, pc |-> "read", local |-> <<>>]]
              ELSE Without(ops, i)
    /\ UNCHANGED <<cart, units>>
    /\ CartFrame

CartSteps ==
    \/ \E i \in 1..(2 * MaxRequests) : ReadCart(i)
    \/ \E i \in 1..(2 * MaxRequests), found \in BOOLEAN : WriteCart(i, found)
    \/ \E i \in 1..(2 * MaxRequests) : FetchDone(i)

CartNext == (\E r \in Requests : Request(r)) \/ CartSteps

CartSpec == CartInit /\ [][CartNext]_vars

\* the requests arrive one at a time, each after the operations before it ended
SerialCartNext == (\E r \in Requests : RequestWhenIdle(r)) \/ CartSteps

SerialCartSpec == CartInit /\ [][SerialCartNext]_vars

\* ------------------------------------------------------------------------
\* getImageUrl on its own: one element, probed once
\* ------------------------------------------------------------------------
ThumbInit ==
    /\ imgEl \in ImgElements \cup {NoImg} /\ thumb = Unresolved
    /\ RateParked /\ CartParked
    /\ input = [kind |-> "free", shape |-> 0, expect |-> None, text |-> <<>>,
                pre |-> <<>>, post |-> <<>>]
    /\ price = Unset /\ title = NoTitle
    /\ EngineParked

Resolve ==
    /\ thumb = Unresolved
    /\ thumb' = getImageUrl(imgEl)
    /\ UNCHANGED <<input, price, title, imgEl, rvars, cvars, evars, avars>>

ThumbNext == Resolve

ThumbSpec == ThumbInit /\ [][ThumbNext]_vars

Extracted == price # Unset

\* p > 0 and p < 999999, written out on the number itself
Positive(p) == p.int > 0 \/ p.frac # <<>>
BelowLimit(p) == p.int <= 999998

\* pattern k matches the text, and what its capture parses to
Matches(k) == PRICE_REGEX(k, input.text) # NoMatch
Parsed(k) == Captured(input.text, PRICE_REGEX(k, input.text))
Accepted(k) == Matches(k) /\ Positive(Parsed(k)) /\ BelowLimit(Parsed(k))

\* C8: extract never returns a value outside the open interval (0, 999999): a
\* returned price p has 0 < p < 999999, and no pattern's out-of-range capture is
\* what extract returns.
C8_NeverOutOfRange ==
    Extracted /\ price # None =>
        /\ Positive(price) /\ BelowLimit(price)
        /\ \A k \in 1..NumPatterns :
              Matches(k) /\ ~(Positive(Parsed(k)) /\ BelowLimit(Parsed(k))) => price # Parsed(k)

\* an out-of-range capture was seen and passed over, and a later pattern answered
C8_Witness ==
    /\ Extracted /\ price # None
    /\ \E k \in 1..NumPatterns : Matches(k) /\ ~Accepted(k)

\* C9 as stated: a text holding exactly one price token yields that token's
\* value, whatever the value.
C9_TokenValueAnyRange ==
    Extracted /\ input.kind = "token" => price = input.expect

\* C9 amended: a text holding exactly one price token whose value p has
\* 0 < p < 999999 yields p, and a text holding no price token yields none.
C9_TokenValueInRange ==
    /\ Extracted /\ input.kind = "token"
          /\ Positive(input.expect) /\ BelowLimit(input.expect) => price = input.expect
    /\ Extracted /\ input.kind = "noprice" => price = None

\* a comma-separated token of the fourth shape has been extracted
C9_Witness ==
    /\ Extracted /\ input.kind = "token" /\ input.shape = 4
    /\ price = Num(1000, <<>>)

\* C10: the patterns are tried in the order 1, 2, 3, 4; the result is the value of
\* the first pattern whose match is in range, an out-of-range match does not end
\* the search, and none is returned only when all four fail.
C10_PriorityOrder ==
    Extracted =>
        /\ \A k \in 1..NumPatterns :
              Accepted(k) /\ (\A j \in 1..(k - 1) : ~Accepted(j)) => price = Parsed(k)
        /\ (price = None) <=> (\A k \in 1..NumPatterns : ~Accepted(k))

\* the first pattern matched out of range and a later pattern gave the price
C10_Witness ==
    /\ Extracted /\ Matches(1) /\ ~Accepted(1)
    /\ \E k \in 2..NumPatterns : Accepted(k) /\ price = Parsed(k)

\* a descriptor was built for a text that starts with a price token
LeadingToken == Extracted /\ input.kind = "token" /\ input.pre = <<>> /\ title.built

\* the text with its leading token removed, or the text itself if nothing is left
TokenRemoved == IF Trim(input.post) = <<>> THEN input.text ELSE Trim(input.post)

\* C11: for a candidate whose text starts with a price token of any of the four
\* shapes, the descriptor's title is the text with that token removed, or the
\* whole text when nothing would be left.
C11_TitleStripsLeadingToken == LeadingToken => title.text = TokenRemoved

\* the step finds the host context invalidated at a collaborator call site
InvalidationDetected ==
    \/ LoadRateStep("invalidated")
    \/ SettingsLoadDone("invalidated")
    \/ \E ctl \in Controls : Click(ctl, "invalidated")
    \/ \E i \in 1..MaxClicks, conv \in Conversions : ConvertDone(i, conv, "invalidated")

\* C12: at every collaborator call site (getSettings and getRate in loadRate,
\* addToCart in a control's click handler) a detected host-context invalidation
\* runs the teardown.
C12_InvalidationTearsDown == [][InvalidationDetected => cleaned' /\ NothingLive']_vars

\* C14: no addToCart request is sent by an activation made while an earlier
\* activation of the same control was still in progress.
C14_OneRequestPerBusyWindow == overlapRequests = 0

\* the subtitle the claim describes: the parameter decoded twice, else decoded
\* once, else the href as it is
ClaimedSubtitle(sub) ==
    IF sub.kind = "absent" THEN <<>>
    ELSE IF sub.kind = "text" THEN Trim(sub.chars)
    ELSE IF UrlMatch(sub.chars) = <<>> THEN sub.chars
    ELSE IF decodeURIComponent(UrlMatch(sub.chars)).ok
         THEN (IF decodeURIComponent(decodeURIComponent(UrlMatch(sub.chars)).text).ok
               THEN decodeURIComponent(decodeURIComponent(UrlMatch(sub.chars)).text).text
               ELSE decodeURIComponent(UrlMatch(sub.chars)).text)
    ELSE sub.chars

\* C13: extracting the source link never raises: no scan at start-up or in a
\* flush is ended by an exception, and the descriptor's subtitle is the url=
\* parameter decoded twice, or once if that fails, or the raw href if that fails.
C13_LinkExtractionNeverRaises ==
    /\ ~raised /\ pc # "aborted"
    /\ \A k \in 1..Len(bars) : bars[k].desc.subtitle = ClaimedSubtitle(href)

\* C15: in every state the full-rescan flag and the dirty-root set exclude each
\* other: while the flag is set the set is empty.
C15_FlagExcludesRoots == pendingFullRescan => pendingScanRoots = {}

\* a notification touching <body> has raised the flag while a card attached
\* since the last scan still waits for its control
C15_Witness ==
    /\ pendingFullRescan /\ rootTouched /\ scanDebounceTimer
    /\ \E c \in attached : Priced(c) /\ ctrls[c] = <<>>
    /\ lastFlush = "targeted"

\* ------------------------------------------------------------------------
\* C16: the scan debounce. A step in which the body observer's callback runs
\* leaves the handle set and exactly one scan timer live (the pending one is
\* cancelled, a new one armed), and a flush is run only by the timer the handle
\* holds, which is the most recently armed of the live timers.
MutationNotification ==
    /\ observer
    /\ \/ HostBodyMutation
       \/ \E c \in Cards : HostAttachCard(c) \/ HostDetachCard(c)

C16_Debounce ==
    [][/\ MutationNotification =>
            scanDebounceTimer' /\ \E t \in scanTimers' : scanTimers' = {t}
       /\ \A t \in scanTimers :
            FlushBy(t) => scanDebounceTimer /\ t = Max(scanTimers)]_vars

\* two notifications have queued both cards: the second found the timer of the
\* first pending, and one timer is live
C16_Witness ==
    /\ scanDebounceTimer
    /\ scanTimers = {1}
    /\ \A c \in Cards : Card(c) \in pendingScanRoots

\* ------------------------------------------------------------------------
\* C17: in every reachable state at most one scan debounce timer, at most one
\* lightbox debounce timer and at most one panel polling interval is live.
C17_OneTimerPerKind ==
    /\ Cardinality(scanTimers) <= 1
    /\ Cardinality(lightboxTimers) <= 1
    /\ pollIntervals <= 1

\* a timer of each kind is live at once, after a flush has already run
C17_Witness ==
    /\ scanDebounceTimer /\ scanTimers # {}
    /\ lightboxDebounceTimer = "pending" /\ lightboxTimers # {}
    /\ viewerCheckInterval /\ pollIntervals = 1
    /\ lastFlush # "none"

\* ------------------------------------------------------------------------
\* C18: a targeted flush changes the controls of a card only if the card is
\* attached and lies in the subtree of a queued root (the grid container or the
\* card itself): a detached queued card is skipped, a card outside every queued
\* root is left as it was.
C18_TargetedFlushScope ==
    [][\A t \in scanTimers :
          FlushBy(t) /\ ~pendingFullRescan =>
              \A c \in Cards :
                  ctrls'[c] # ctrls[c] =>
                      /\ c \in attached
                      /\ Container \in pendingScanRoots \/ Card(c) \in pendingScanRoots]_vars

\* a targeted flush has just run on roots that hold no card, and an attached
\* card with its class and a price is still without a control
C18_Witness ==
    /\ lastFlush = "targeted" /\ ~scanDebounceTimer /\ pendingScanRoots = {}
    /\ flushedRoots = {Filler(1)}
    /\ \E c \in attached \cap classed : Priced(c) /\ ctrls[c] = <<>>

\* ------------------------------------------------------------------------
\* C20: a targeted flush whose queued roots include an attached card gives that
\* card the controls a full scan of the page would give it.
C20_RootItselfIsCandidate ==
    [][\A t \in scanTimers :
          FlushBy(t) /\ ~pendingFullRescan =>
              \A c \in attached :
                  Card(c) \in pendingScanRoots => ctrls'[c] = scanPage(CurrentPage).ctrls[c]]_vars

\* the last flush was targeted at one card alone, queued when the host dropped
\* its control, and the card has its control again
C20_Witness ==
    /\ lastFlush = "targeted"
    /\ \E c \in attached : flushedRoots = {Card(c)} /\ Priced(c) /\ Len(ctrls[c]) = 1

\* ------------------------------------------------------------------------
\* C19: every flush, targeted or full, whatever roots were queued, leaves the
\* detail bar as the detail-page detector run on the whole page leaves it, and
\* the panel's bar as the overlay detector run after it on the whole page leaves it.
DetailEvaluated ==
    processDetailPage([bars |-> bars, data |-> detailPageItemData, threw |-> FALSE])

C19_PageLevelDetectorsAlwaysRun ==
    [][\A t \in scanTimers :
          FlushBy(t) =>
              /\ bars' = DetailEvaluated.bars
              /\ detailPageItemData' = DetailEvaluated.data
              /\ viewerBars' = processImageViewer(viewerBars, DetailEvaluated.data)]_vars

\* ------------------------------------------------------------------------
\* C21: if the host's mutations eventually stop, every state in which a root
\* is queued or the full-rescan flag is set is followed by a state in which the
\* flushes have emptied the queue and lowered the flag.
HostMutation ==
    \/ \E c \in Cards : HostAttachCard(c) \/ HostDetachCard(c) \/ HostStripCard(c)
    \/ HostMutateFiller(1)
    \/ HostBodyMutation

ScanPending == pendingScanRoots # {} \/ pendingFullRescan

C21_EveryNotificationFlushed ==
    <>[][~HostMutation]_vars => (ScanPending ~> ~ScanPending)

\* the queue is empty after two flushes in a row: a targeted one that injected
\* a control, and the one that scanned the roots of that injection
C21_Witness ==
    /\ ~ScanPending /\ ~scanDebounceTimer /\ lastFlush = "targeted"
    /\ \E c \in attached : flushedRoots = {Card(c), Overlay(c)} /\ Len(ctrls[c]) = 1

\* ------------------------------------------------------------------------
\* C22: a step adds a control (to a card, as a detail bar or as the panel's bar)
\* only if it is the start-up scan or a flush, or the overlay recompute, which
\* adds nothing but the panel's bar and only while the panel is shown.
Injected ==
    \/ \E c \in Cards : Len(ctrls'[c]) > Len(ctrls[c])
    \/ Len(bars') > Len(bars)
    \/ Len(viewerBars') > Len(viewerBars)

\* C22 as stated: controls are added only in the start-up scan or a flush
C22_InjectOnlyInFlush == [][Injected => InitContinue \/ flushQueuedScans]_vars

C22_InjectOnlyInScans ==
    [][Injected =>
          \/ InitContinue
          \/ flushQueuedScans
          \/ /\ LightboxRecompute
             /\ viewer = "shown"
             /\ ctrls' = ctrls /\ Len(bars') = Len(bars)]_vars

\* the panel was absent at start-up, no flush has run, and the panel carries
\* its bar: the recompute injected it
C22_Witness ==
    /\ pc = "running" /\ lastFlush = "none" /\ viewerObserver = "idle"
    /\ lightboxDebounceTimer = "fired"
    /\ viewer = "shown" /\ viewerBars # <<>>

\* ------------------------------------------------------------------------
\* C24: after every recompute made while <html> is scroll-locked or the panel
\* is not hidden, a panel that is present carries its bar if a detail context
\* is cached.
C24_RecomputeInvokesOverlayDetector ==
    [][LightboxRecompute /\ (htmlLocked \/ viewer = "shown")
          /\ viewer # "absent" /\ detailPageItemData # NoData
       => viewerBars' # <<>>]_vars

\* ------------------------------------------------------------------------
\* C23: no step leaves more than one detail bar in the document, and while a
\* bar is present no step changes its descriptor or the cached detail context,
\* whatever the header's text has become.
C23_AtMostOneDetailBar ==
    [][/\ Len(bars') <= 1
       /\ bars # <<>> =>
            /\ bars' # <<>> => bars'[1].desc = bars[1].desc
            /\ detailPageItemData' = detailPageItemData]_vars

\* the header's text was replaced while the bar was present, the flush that
\* followed has run, and the bar still shows the price of the earlier text
C23_Witness ==
    /\ ~cleaned /\ lastFlush # "none" /\ ~scanDebounceTimer
    /\ Len(bars) = 1 /\ header # 0
    /\ HeaderPrice[header] # bars[1].desc.price
    /\ detailPageItemData = bars[1].desc

\* ------------------------------------------------------------------------
\* C29: getImageUrl returns the first acceptable reference among the
\* data-origin-src attribute, the data-src attribute and the src property, in
\* that order, and '' when none is acceptable; acceptable is a reference that
\* begins with 'http' or an inline one longer than 200; a shorter inline
\* placeholder in an earlier position does not hide a later acceptable one.
NetworkUrl(url) == url.scheme = "http"
LargeInline(url) == url.scheme = "data" /\ url.len > SmallDataLimit
Placeholder(url) == url.scheme = "data" /\ url.len < SmallDataLimit
AcceptableUrl(url) == NetworkUrl(url) \/ LargeInline(url)

C29_FirstAcceptableCandidate ==
    thumb # Unresolved =>
        /\ thumb = EmptyStr \/ NetworkUrl(thumb) \/ LargeInline(thumb)
        /\ imgEl = NoImg => thumb = EmptyStr
        /\ imgEl # NoImg =>
              /\ thumb = IF AcceptableUrl(imgEl.origin) THEN imgEl.origin
                         ELSE IF AcceptableUrl(imgEl.lazy) THEN imgEl.lazy
                         ELSE IF AcceptableUrl(imgEl.src) THEN imgEl.src
                         ELSE EmptyStr
              /\ Placeholder(imgEl.origin) /\ AcceptableUrl(imgEl.lazy) => thumb = imgEl.lazy
              /\ Placeholder(imgEl.origin) /\ Placeholder(imgEl.lazy) /\ AcceptableUrl(imgEl.src)
                    => thumb = imgEl.src

\* a placeholder in data-origin-src, an inline reference of exactly 200
\* characters in data-src, and the src property returned
C29_Witness ==
    /\ thumb # Unresolved /\ imgEl # NoImg
    /\ Placeholder(imgEl.origin)
    /\ imgEl.lazy = [scheme |-> "data", len |-> SmallDataLimit]
    /\ NetworkUrl(imgEl.src) /\ thumb = imgEl.src

\* ------------------------------------------------------------------------
\* C25: a step gives the panel a bar only when there is a cached context; the
\* bar's descriptor has the cached context's price, title and subtitle, and its
\* thumbnail is the reference of the panel's image when the image has an
\* acceptable one and the cached thumbnail otherwise; the overlay recompute
\* leaves the cached context as it was, and a flush leaves it as the
\* detail-page detector alone leaves it.
ValidImage(img) ==
    /\ img # NoImg
    /\ AcceptableUrl(img.origin) \/ AcceptableUrl(img.lazy) \/ AcceptableUrl(img.src)

ClonedFrom(d, data) ==
    /\ data # NoData
    /\ d.price = data.price /\ d.title = data.title /\ d.subtitle = data.subtitle
    /\ ValidImage(viewerImg) => d.thumbnail = getImageUrl(viewerImg)
    /\ ~ValidImage(viewerImg) => d.thumbnail = data.thumbnail

C25_OverlayClonesCachedContext ==
    [][/\ Len(viewerBars') > Len(viewerBars) =>
             ClonedFrom(viewerBars'[Len(viewerBars')], detailPageItemData')
       /\ LightboxRecompute => detailPageItemData' = detailPageItemData
       /\ flushQueuedScans => detailPageItemData' = DetailEvaluated.data]_vars

\* the panel shows an image with no acceptable reference, and its bar carries
\* the cached context with the page's thumbnail
C25_Witness ==
    /\ viewerBars # <<>> /\ viewerImg = PlaceholderImg
    /\ detailPageItemData # NoData
    /\ viewerBars[1] = detailPageItemData

\* ------------------------------------------------------------------------
\* C26: detailPageItemData is null until the first scan, is the descriptor of
\* the detail bar whenever a scan injects one, and is null in every state
\* after cleanup() has run.
C26_CacheClearedByTeardown ==
    /\ [](pc \in {"getSettings", "getRate", "scan"} /\ ~cleaned => detailPageItemData = NoData)
    /\ [][Len(bars') > Len(bars) => detailPageItemData' = bars'[Len(bars')].desc]_vars
    /\ [](cleaned => detailPageItemData = NoData)

\* ------------------------------------------------------------------------
\* C27: a control shows the success state of an activation (from '\u2713 Added'
\* until its 1500 ms timer fires) only when none of its addToCart messages is
\* still waiting for the service worker's response.
InFlight(ctl) == \E k \in 1..Len(inflight) : inflight[k].ctl = ctl
SuccessShown(ctl) == \E i \in 1..Len(reverts) : reverts[i] = ctl

C27_SuccessAfterResponse == \A ctl \in Controls : SuccessShown(ctl) => ~InFlight(ctl)

\* ------------------------------------------------------------------------
\* C30: imageToBase64 resolves however the image ends, and every activation
\* calls sendMessage once: at every moment the calls made and the handlers
\* still waiting for the conversion add up to the activations, and a handler
\* leaves the wait only by making its call.
C30_ConversionNeverBlocks ==
    /\ [](\A conv \in Conversions : imageToBase64(conv).settled = "resolved")
    /\ [](calls + Len(handlers) = clicks)
    /\ [][Len(handlers') < Len(handlers) => calls' = calls + 1]_vars

\* every activation has made its call, and a message in flight carries the
\* http thumbnail of the detail bar because its conversion failed
C30_Witness ==
    /\ clicks = MaxClicks /\ calls = MaxClicks /\ handlers = <<>>
    /\ \E k \in 1..Len(inflight) : inflight[k] = [ctl |-> Bar, thumbnail |-> "http"]

\* ------------------------------------------------------------------------
\* C28: when init() finds no panel it creates the observer unattached and arms
\* the polling interval, and when it finds one it attaches at once and arms
\* nothing; the first interval tick at which the panel exists attaches the
\* observer and leaves no interval live; an interval is live only while the
\* observer is created and unattached.
C28_PollUntilPanelFound ==
    /\ [][InitContinue /\ pc' = "running" =>
            IF viewer = "absent"
            THEN viewerObserver' = "idle" /\ pollIntervals' = pollIntervals + 1
            ELSE viewerObserver' = "observing" /\ pollIntervals' = pollIntervals]_vars
    /\ [][ViewerPoll => viewerObserver' = "observing" /\ pollIntervals' = 0]_vars
    /\ [](pollIntervals > 0 => viewerObserver = "idle")

\* the panel was added after start-up and a tick has attached the observer
\* before the flush for the panel's insertion ran
C28_Witness ==
    /\ viewerObserver = "observing" /\ pollIntervals = 0 /\ ~viewerCheckInterval
    /\ viewer # "absent" /\ viewerBars = <<>> /\ detailPageItemData # NoData
    /\ scanDebounceTimer /\ ~cleaned

\* ------------------------------------------------------------------------
\* C32: in every state where the dirty-root set is not empty or the full-rescan
\* flag is set, the scan timer handle is set and its 250 ms timer is live; so
\* with no scan timer pending the set is empty and the flag unset.
C32_NoStrandedWork == ScanPending => scanDebounceTimer /\ scanTimers # {}

\* a targeted flush has run and its own injection is queued behind a live timer
C32_Witness ==
    /\ lastFlush = "targeted" /\ pendingScanRoots # {} /\ ~pendingFullRescan
    /\ scanDebounceTimer /\ Cardinality(scanTimers) = 1 /\ ~rootTouched
    /\ \E c \in attached : Card(c) \in pendingScanRoots /\ Len(ctrls[c]) = 1

\* ------------------------------------------------------------------------
\* C33: a flush whose timer was armed for the script's own injections alone
\* injects nothing and leaves no scan timer pending and nothing queued; and if
\* the host's changes eventually stop, from some moment on no scan timer is
\* pending and nothing is queued.
HostStep == HostMutation \/ \E c \in Cards : HostSetClass(c)

SchedulerIdle == ~ScanPending /\ ~scanDebounceTimer /\ scanTimers = {}

C33_SelfInducedScanConverges ==
    /\ [][selfInduced /\ flushQueuedScans => ~Injected /\ SchedulerIdle']_vars
    /\ <>[][~HostStep]_vars => <>[]SchedulerIdle

\* the flush for the script's own injection has run and left the scheduler
\* idle; the page's other card is attached and was left without a control
C33_Witness ==
    /\ SchedulerIdle /\ ~selfInduced /\ lastFlush = "targeted"
    /\ \E c \in attached : flushedRoots = {Card(c), Overlay(c)} /\ Len(ctrls[c]) = 1
    /\ \E b \in attached : ctrls[b] = <<>>

\* ------------------------------------------------------------------------
\* C34: in every state with a detail bar and no lightbox timer pending, the bar
\* carries the display:none override exactly when <html> is scroll-locked or
\* the panel exists and is not display:none.
C34_BarHiddenIffOverlayVisible ==
    bars # <<>> /\ lightboxTimers = {} /\ lightboxDebounceTimer # "pending"
        => (bars[1].hidden <=> (htmlLocked \/ viewer = "shown"))

\* ------------------------------------------------------------------------
\* C35: once the panel observer has been attached, every change of the display
\* style of the panel that is in the document arms the lightbox timer, also
\* when that panel replaced the one the observer was attached to.
C35_ObserverFollowsPanel ==
    [][HostSetViewerDisplay /\ viewerObserver \in {"observing", "stale"} =>
          lightboxDebounceTimer' = "pending" /\ lightboxTimers' # {}]_vars

\* ------------------------------------------------------------------------
\* C36: whenever no loadRate() is in flight, the cached rate, if there is one,
\* is the rate of targetCurrency; and no rendering ever carries the symbol of
\* one currency with the rate of another.
C36_RateMatchesCurrency ==
    /\ loads = <<>> /\ exchangeRate # NoRate => exchangeRate.target = targetCurrency
    /\ rendered \notin {NotRendered, EmptyRendering} => rendered.symbol = rendered.rate

\* ------------------------------------------------------------------------
\* The cart operations against each other
\* ------------------------------------------------------------------------
\* the orders in which n operations can run one after another
Orders(n) == {f \in [1..n -> 1..n] : \A a, b \in 1..n : a # b => f[a] # f[b]}

\* the cart after the first k operations of order f ran one at a time
RECURSIVE RunInOrder(_, _)
RunInOrder(f, k) ==
    IF k = 0 THEN <<>> ELSE Saved(RunInOrder(f, k - 1), units[f[k]], f[k])

SerialCarts == {RunInOrder(f, Len(units)) : f \in Orders(Len(units))}

\* C31: once every cart operation that ran concurrently has completed, the
\* stored cart is the cart some one-at-a-time order of those operations
\* leaves: no completed update is lost.
C31_CartOperationsSerializable == ops = <<>> => cart \in SerialCarts

\* C37: after any sequence of addToCart requests the cart holds at most one
\* entry for each (title, vendor, price), items with empty title or vendor
\* included, and every entry's quantity is at least 1.
C37_OneEntryPerProduct ==
    /\ \A a, b \in 1..Len(cart) :
          a # b => <<cart[a].title, cart[a].vendor, cart[a].price>>
                     # <<cart[b].title, cart[b].vendor, cart[b].price>>
    /\ \A a \in 1..Len(cart) : cart[a].quantity >= 1

====
